---- MODULE Spec2Model ----
(***************************************************************************)
(* Route planning of the delivery fleet game: the planning agents          *)
(* (RAgent and its agent_r_old / agent_r_nocheat variants, NeuralRAgent,   *)
(* CustomAgent) and the router's tour routines.                            *)
(*                                                                         *)
(* Coordinates lie on the rhombus (+-3,0), (0,+-4) around the depot (0,0), *)
(* where every pairwise Euclidean distance is an integer, so that          *)
(* calc_distance is computed exactly.                                      *)
(***************************************************************************)
EXTENDS Integers, Sequences, FiniteSets, TLC

(* ------------------------------ bounds -------------------------------- *)
MaxPkgs == 3
MaxVeh == 2
MaxReusePkgs == 2
MaxReuseVeh == 1
MaxTour == 4
MaxIter == 2

MaxManualPkgs == 2

MaxManualVeh == 3

MaxFleet == 2

MaxPending == 2

MaxHistory == 2

MaxDay == 2
MaxOverHistory == 4
MaxEpisodes == 2
LastDay == 31

(* --------------------------- sequence helpers ------------------------- *)
Range(s) == {s[i] : i \in DOMAIN s}

Front(s) == SubSeq(s, 1, Len(s) - 1)

Last(s) == s[Len(s)]

RECURSIVE SumSeq(_)
SumSeq(s) == IF s = <<>> THEN 0 ELSE s[1] + SumSeq(Tail(s))

\* list.remove(x): drops the first element equal to x
RemoveFirst(s, x) ==
    IF \E i \in DOMAIN s : s[i] = x
    THEN LET k == CHOOSE i \in DOMAIN s : s[i] = x /\ \A j \in 1..(i - 1) : s[j] # x
         IN SubSeq(s, 1, k - 1) \o SubSeq(s, k + 1, Len(s))
    ELSE s

\* a key is a fraction <<numerator, denominator>> with a positive denominator
KeyLess(a, b) == a[1] * b[2] < b[1] * a[2]

\* list.sort(key=..., reverse=...) / sorted(...): key[i] is the key of list[i];
\* stable, and reverse=True keeps the order of elements with equal keys
StableSort(list, key, reverse) ==
    LET First(s, k, i, j) == IF KeyLess(k[i], k[j]) THEN ~reverse
                             ELSE IF KeyLess(k[j], k[i]) THEN reverse
                             ELSE i < j
        Ranks(s, k) == [i \in DOMAIN s |->
                          Cardinality({j \in DOMAIN s : j # i /\ First(s, k, j, i)}) + 1]
        Place(s, rank) == [r \in DOMAIN s |-> s[CHOOSE i \in DOMAIN s : rank[i] = r]]
        Sorted(sk) == CHOOSE computed \in {Place(sk[1], given) : given \in {Ranks(sk[1], sk[2])}} : TRUE
    IN CHOOSE computed \in {Sorted(given) : given \in {<<list, key>>}} : TRUE

\* the injective sequences over S of length at most n
RECURSIVE DistinctSeqs(_, _)
DistinctSeqs(S, n) ==
    IF n = 0 THEN {<<>>}
    ELSE LET shorter == DistinctSeqs(S, n - 1)
         IN shorter \cup {Append(sx[1], sx[2]) :
                              sx \in {tx \in shorter \X S :
                                         Len(tx[1]) = n - 1 /\ tx[2] \notin Range(tx[1])}}

(* ------------------------------ geometry ------------------------------ *)
depot == <<0, 0>>

ISqrt(n) == CHOOSE r \in 0..n : r * r <= n /\ n < (r + 1) * (r + 1)

calc_distance(pos1, pos2) ==
    ISqrt((pos1[1] - pos2[1]) * (pos1[1] - pos2[1]) + (pos1[2] - pos2[2]) * (pos1[2] - pos2[2]))

\* depot -> stop 1 -> ... -> stop n -> depot
RouteDistance(stops) ==
    IF stops = <<>> THEN 0
    ELSE calc_distance(depot, stops[1])
         + SumSeq([i \in 1..(Len(stops) - 1) |-> calc_distance(stops[i], stops[i + 1])])
         + calc_distance(Last(stops), depot)

(* ------------------------------ the data ------------------------------ *)
Package(id, destination, volume_m3, payment) ==
    [id |-> id, destination |-> destination, volume_m3 |-> volume_m3, payment |-> payment]

Vehicle(id, capacity_m3, cost_per_km, max_range_km) ==
    [id |-> id, capacity_m3 |-> capacity_m3, cost_per_km |-> cost_per_km,
     max_range_km |-> max_range_km]

Route(vehicle, pkgs, stops) == [vehicle |-> vehicle, packages |-> pkgs, stops |-> stops]

\* the packages and vehicles the inputs are drawn from: package 5 fits no
\* vehicle, packages 1 and 3 pay the same per m3, vehicle 2 has a range of 7 km,
\* vehicles 1 and 3 cost the same per km and m3
PackageCatalogue ==
    { Package(1, <<3, 0>>, 1, 6),
      Package(2, <<-3, 0>>, 1, 2),
      Package(3, <<0, 4>>, 2, 12),
      Package(4, <<0, -4>>, 3, 3),
      Package(5, <<3, 0>>, 5, 9) }

VehicleCatalogue ==
    { Vehicle(1, 2, 1, 40),
      Vehicle(2, 4, 1, 7),
      Vehicle(3, 4, 2, 40) }

PackageLists(n) == DistinctSeqs(PackageCatalogue, n)

FleetLists(n) == DistinctSeqs(VehicleCatalogue, n)

TotalVolume(pkgs) == SumSeq([i \in DOMAIN pkgs |-> pkgs[i].volume_m3])

calculate_total_distance(route) == RouteDistance(route.stops)

\* Route.is_valid: capacity, coverage of the destinations, range
is_valid(route) ==
    /\ TotalVolume(route.packages) <= route.vehicle.capacity_m3
    /\ \A i \in DOMAIN route.packages : route.packages[i].destination \in Range(route.stops)
    /\ calculate_total_distance(route) <= route.vehicle.max_range_km

\* RouteAgent.validate_inputs: neither list may be empty
validate_inputs(pkgs, vehs) == pkgs # <<>> /\ vehs # <<>>

(* ------------------------- agent_r.py: RAgent ------------------------- *)
\* the working lists an RAgent instance keeps as fields
RAgentFields(boxes, vehicles, assigned_boxes, assigned_vehicles, routes) ==
    [_boxes |-> boxes, _vehicles |-> vehicles, _assigned_boxes |-> assigned_boxes,
     _assigned_vehicles |-> assigned_vehicles, _routes |-> routes]

\* RAgent.__init__
RAgentInit == RAgentFields(<<>>, <<>>, <<>>, <<>>, <<>>)

ShareList(obj) == [alias |-> TRUE, val |-> obj]

\* copy.deepcopy / list.copy: a new object with the same contents; alias says
\* whether the working list is the very list object the caller passed
deepcopy(obj) == [alias |-> FALSE, val |-> obj]

\* key=lambda v: v.vehicle_type.cost_per_km / v.vehicle_type.capacity_m3
Ratio(v) == <<v.cost_per_km, v.capacity_m3>>

\* self._vehicles.sort(key=...)
SortVehicles(vehicles) ==
    StableSort(vehicles, [i \in DOMAIN vehicles |-> Ratio(vehicles[i])], FALSE)

\* veh = self._vehicles.pop()
PopVehicle(vehicles) == [veh |-> Last(vehicles), rest |-> Front(vehicles)]

\* _find_cluster: box, then the others in the given order until one overflows
RECURSIVE FindClusterLoop(_, _, _, _)
FindClusterLoop(others, cluster, cubic, veh) ==
    IF others = <<>> THEN cluster
    ELSE LET b == Head(others)
             cubic2 == cubic + b.volume_m3
         IN IF cubic2 > veh.capacity_m3 THEN cluster
            ELSE FindClusterLoop(Tail(others), Append(cluster, b), cubic2, veh)

FindClusterWithoutSeed(box, boxes, veh) ==
    FindClusterLoop(SelectSeq(boxes, LAMBDA b : b # box), <<>>, 0, veh)

\* RAgent._find_cluster(box, boxes, veh)
_find_cluster(box, boxes, veh) ==
    FindClusterLoop(SelectSeq(boxes, LAMBDA b : b # box), <<box>>, box.volume_m3, veh)

NextBoxFarthest(origin, cluster) ==
    LET Pop(sorted) == [box |-> Last(sorted), rest |-> Front(sorted)]
    IN CHOOSE computed \in
           {Pop(given) : given \in
               {StableSort(cluster,
                           [i \in DOMAIN cluster |->
                              <<calc_distance(origin, cluster[i].destination), 1>>],
                           FALSE)}} : TRUE

\* cluster.sort(key=distance to origin, reverse=True); box = cluster.pop()
NextBox(origin, cluster) ==
    LET Pop(sorted) == [box |-> Last(sorted), rest |-> Front(sorted)]
    IN CHOOSE computed \in
           {Pop(given) : given \in
               {StableSort(cluster,
                           [i \in DOMAIN cluster |->
                              <<calc_distance(origin, cluster[i].destination), 1>>],
                           TRUE)}} : TRUE

RECURSIVE GreedyClusterLoop(_, _, _, _)
GreedyClusterLoop(origin, cluster, route, boxes) ==
    IF cluster = <<>> THEN [route |-> route, boxes |-> boxes]
    ELSE LET Move(nb) == GreedyClusterLoop(nb.box.destination, nb.rest,
                                           Append(route, nb.box.destination),
                                           Append(boxes, nb.box))
         IN CHOOSE computed \in {Move(given) : given \in {NextBox(origin, cluster)}} : TRUE

greedy_cluster(vehicle, cluster) ==
    LET done == GreedyClusterLoop(depot, cluster, <<depot>>, <<>>)
    IN Route(vehicle, done.boxes, Append(done.route, depot))

\* final_clusters.append(...); final_clusters.sort(key=total distance, reverse=True)
RECURSIVE FinalClusters(_, _, _)
FinalClusters(veh, clusters, final_clusters) ==
    IF clusters = <<>> THEN final_clusters
    ELSE LET Sort(appended) ==
                 StableSort(appended,
                            [i \in DOMAIN appended |->
                               <<calculate_total_distance(appended[i]), 1>>],
                            TRUE)
             Rest(sorted) == FinalClusters(veh, Tail(clusters), sorted)
         IN CHOOSE computed \in
                {Rest(given) : given \in
                    {Sort(appended) : appended \in
                        {Append(final_clusters, greedy_cluster(veh, Head(clusters)))}}} : TRUE

\* the clusters seeded by each box that is not yet assigned
Clusters(self, veh) ==
    LET seeds == SelectSeq(self._boxes, LAMBDA b : b \notin Range(self._assigned_boxes))
    IN [i \in DOMAIN seeds |->
          _find_cluster(seeds[i],
                        StableSort(self._boxes,
                                   [j \in DOMAIN self._boxes |->
                                      <<calc_distance(seeds[i].destination,
                                                      self._boxes[j].destination), 1>>],
                                   FALSE),
                        veh)]

RECURSIVE RemoveAll(_, _)
RemoveAll(boxes, pkgs) ==
    IF pkgs = <<>> THEN boxes ELSE RemoveAll(RemoveFirst(boxes, Head(pkgs)), Tail(pkgs))

TakeRouteKeepBoxes(self, route) ==
    [self EXCEPT !._assigned_boxes = @ \o route.packages,
                 !._routes = Append(@, route)]

\* _clusters_all, lines 102-108: the route is taken off _boxes and recorded
TakeRoute(self, route) ==
    [self EXCEPT !._boxes = RemoveAll(@, route.packages),
                 !._assigned_boxes = @ \o route.packages,
                 !._routes = Append(@, route)]

\* _clusters_all: one vehicle and one route per iteration; raised records the
\* IndexError of final_clusters.pop() on an empty list
RECURSIVE _clusters_all(_)
_clusters_all(self) ==
    IF self._boxes = <<>> \/ self._vehicles = <<>> THEN [self |-> self, raised |-> FALSE]
    ELSE LET Step(s1) ==
                 LET veh == Last(s1._assigned_vehicles)
                     Pick(final_clusters) ==
                         IF final_clusters = <<>> THEN [self |-> s1, raised |-> TRUE]
                         ELSE CHOOSE computed \in {_clusters_all(given) : given \in {TakeRoute(s1, Last(final_clusters))}} : TRUE
                 IN CHOOSE computed \in {Pick(given) : given \in {FinalClusters(veh, Clusters(s1, veh), <<>>)}} : TRUE
         IN CHOOSE computed \in {Step(given) : given \in {[self EXCEPT !._vehicles = PopVehicle(@).rest,
                                        !._assigned_vehicles = Append(@, PopVehicle(self._vehicles).veh)]}} : TRUE

ResetKeepRoutes(self, pkgs, vehs) ==
    RAgentFields(pkgs, vehs, <<>>, <<>>, self._routes)

\* plan_routes, lines 31-37: the working lists are set up anew
ResetWorkingLists(self, pkgs, vehs) ==
    RAgentFields(pkgs, vehs, <<>>, <<>>, <<>>)

\* RAgent.plan_routes: the fields after the call, what the call returns, and the
\* caller's two lists after the call
RAgent_plan_routes(self, pkgs, vehs) ==
    IF ~validate_inputs(pkgs, vehs)
    THEN [self |-> self, routes |-> <<>>, raised |-> FALSE, packages |-> pkgs, fleet |-> vehs]
    ELSE LET vcopy == deepcopy(vehs)
             bcopy == deepcopy(pkgs)
             s0 == ResetWorkingLists(self, bcopy.val, vcopy.val)
             s1 == [s0 EXCEPT !._vehicles = SortVehicles(@)]
             Return(done) ==
                 [self |-> done.self,
                  routes |-> done.self._routes,
                  raised |-> done.raised,
                  packages |-> IF bcopy.alias THEN done.self._boxes ELSE pkgs,
                  fleet |-> IF vcopy.alias THEN done.self._vehicles ELSE vehs]
         IN CHOOSE computed \in
                {Return(given) : given \in {_clusters_all(reset) : reset \in {s1}}} : TRUE

(* ------------------ core/router.py: the tour routines ----------------- *)
\* the index of the first point of pts nearest to current
NearestIndex(current, pts) ==
    CHOOSE i \in DOMAIN pts :
        /\ \A j \in DOMAIN pts : calc_distance(current, pts[i]) <= calc_distance(current, pts[j])
        /\ \A j \in 1..(i - 1) : calc_distance(current, pts[j]) > calc_distance(current, pts[i])

RemoveAt(s, k) == SubSeq(s, 1, k - 1) \o SubSeq(s, k + 1, Len(s))

RECURSIVE NearestNeighborLoop(_, _, _)
NearestNeighborLoop(current, unvisited, ordered) ==
    IF unvisited = <<>> THEN ordered
    ELSE LET Move(k) == NearestNeighborLoop(unvisited[k], RemoveAt(unvisited, k),
                                            Append(ordered, unvisited[k]))
         IN CHOOSE computed \in {Move(given) : given \in {NearestIndex(current, unvisited)}} : TRUE

\* Router.nearest_neighbor_tsp(points, start)
nearest_neighbor_tsp(points, start) == NearestNeighborLoop(start, points, <<>>)

\* Router.calculate_route_distance
calculate_route_distance(tour) == RouteDistance(tour)

\* the tour with the segment i..j reversed
ReverseSegment(tour, i, j) ==
    [k \in 1..Len(tour) |-> IF k >= i /\ k <= j THEN tour[i + j - k] ELSE tour[k]]

LengtheningMoves(tour) ==
    {m \in (1..Len(tour)) \X (1..Len(tour)) :
        /\ m[1] < m[2]
        /\ calculate_route_distance(ReverseSegment(tour, m[1], m[2]))
             > calculate_route_distance(tour)}

\* the reversals of one scan that shorten the tour, as <<i, j>> with i < j
ImprovingMoves(tour) ==
    LET Shorter(length) ==
            {m \in (1..Len(tour)) \X (1..Len(tour)) :
                /\ m[1] < m[2]
                /\ calculate_route_distance(ReverseSegment(tour, m[1], m[2])) < length}
    IN CHOOSE computed \in {Shorter(given) : given \in {calculate_route_distance(tour)}} : TRUE

\* the first of them in scan order
FirstImprovingMove(moves) ==
    CHOOSE m \in moves : \A o \in moves : m[1] < o[1] \/ (m[1] = o[1] /\ m[2] <= o[2])

\* Router.two_opt_improvement(route, max_iterations): first improvement, then
\* the scan restarts; at most max_iterations scans
RECURSIVE two_opt_improvement(_, _)
two_opt_improvement(tour, max_iterations) ==
    IF max_iterations <= 0 THEN tour
    ELSE LET Apply(m) == ReverseSegment(tour, m[1], m[2])
             Again(improved) == two_opt_improvement(improved, max_iterations - 1)
             Scan(moves) ==
                 IF moves = {} THEN tour ELSE CHOOSE computed \in {Again(given) : given \in {Apply(FirstImprovingMove(moves))}} : TRUE
         IN CHOOSE computed \in {Scan(given) : given \in {ImprovingMoves(tour)}} : TRUE

\* Router.optimize_package_sequence(packages, use_2opt=False): the packages in
\* nearest-neighbour order of their destinations, from the depot
RECURSIVE PackageSequenceLoop(_, _, _)
PackageSequenceLoop(current, unvisited, ordered) ==
    IF unvisited = <<>> THEN ordered
    ELSE LET Move(k) == PackageSequenceLoop(unvisited[k].destination, RemoveAt(unvisited, k),
                                            Append(ordered, unvisited[k]))
         IN CHOOSE computed \in {Move(given) : given \in {NearestIndex(current, [i \in DOMAIN unvisited |-> unvisited[i].destination])}} : TRUE

optimize_package_sequence(pkgs) == PackageSequenceLoop(depot, pkgs, <<>>)

(* -------------------- agent_r_neural.py: NeuralRAgent ----------------- *)
RECURSIVE SelectLoop(_, _, _, _)
SelectLoop(sortable, selected, used_volume, capacity) ==
    IF sortable = <<>> THEN selected
    ELSE LET pkg == Head(sortable)
         IN IF used_volume + pkg.volume_m3 <= capacity
            THEN SelectLoop(Tail(sortable), Append(selected, pkg),
                            used_volume + pkg.volume_m3, capacity)
            ELSE SelectLoop(Tail(sortable), selected, used_volume, capacity)

_select_packages_for_vehicle(vehicle, candidates) ==
    LET capacity == vehicle.capacity_m3
        \* key: payment / max(volume_m3, 0.01); the volumes are at least 1
        Sort(fitting) == StableSort(fitting,
                                    [i \in DOMAIN fitting |->
                                       <<fitting[i].payment, fitting[i].volume_m3>>],
                                    TRUE)
        Select(sortable) ==
            LET selected == SelectLoop(sortable, <<>>, 0, capacity)
            IN IF selected = <<>> /\ sortable # <<>> THEN <<sortable[1]>> ELSE selected
    IN CHOOSE computed \in
           {Select(given) : given \in
               {Sort(fitting) : fitting \in
                   {SelectSeq(candidates, LAMBDA p : p.volume_m3 <= capacity)}}} : TRUE

EnvStepKeep(remaining, action_index) ==
    [pkg |-> remaining[action_index], remaining |-> remaining]

\* DeliveryEnv.step(action_index): pops remaining[action_index]
EnvStep(remaining, action_index) ==
    [pkg |-> remaining[action_index], remaining |-> RemoveAt(remaining, action_index)]

\* a float that is not a number, as the numerator of a probability
NaN == 0 - 1

\* exp(z2 - max_logits) of PolicyNet.forward for any weights: 2 is exp(0) at the
\* largest logit, 1 a value below it, 0 an underflow; with a logit that is not
\* a number every entry is NaN
ExpRows(max_actions) ==
    {row \in [1..max_actions -> 0..2] : \E i \in 1..max_actions : row[i] = 2}
        \cup {[i \in 1..max_actions |-> NaN]}

\* PolicyNet.forward from exp_z2 on: the mask, the sum with 0 replaced by 1, the
\* probabilities as fractions
forward(exp_z2, valid_actions) ==
    IF exp_z2[1] = NaN THEN [i \in DOMAIN exp_z2 |-> <<NaN, 1>>]
    ELSE LET masked == [i \in DOMAIN exp_z2 |-> IF i <= valid_actions THEN exp_z2[i] ELSE 0]
             denom == IF SumSeq(masked) = 0 THEN 1 ELSE SumSeq(masked)
         IN [i \in DOMAIN masked |-> <<masked[i], denom>>]

\* int(np.argmax(probs[0, :valid_actions])): the first of the largest entries,
\* the first NaN if there is one; positions count from 1 here
argmax(probs, valid_actions) ==
    LET slice == SubSeq(probs, 1, valid_actions)
    IN IF slice[1][1] = NaN THEN 1
       ELSE CHOOSE a \in DOMAIN slice :
                /\ \A b \in DOMAIN slice : slice[b][1] <= slice[a][1]
                /\ \A b \in 1..(a - 1) : slice[b][1] < slice[a][1]

\* np.random.choice(valid_actions, p=probs[0, :valid_actions]): the positions
\* it can draw; {0} stands for its ValueError when p is not a distribution
random_choice(valid_actions, probs) ==
    LET p == SubSeq(probs, 1, valid_actions)
    IN IF p[1][1] = NaN \/ SumSeq([i \in DOMAIN p |-> p[i][1]]) # p[1][2] THEN {0}
       ELSE {a \in DOMAIN p : p[a][1] > 0}

\* DeliveryEnv(packages, ...) after reset(), with the loop that runs on it:
\* phase, the episodes run, the last action and the packages stepped so far
DeliveryEnv(pkgs) ==
    [_packages |-> pkgs, remaining |-> pkgs, phase |-> "episode", episode |-> 1,
     action |-> 0, valid_actions |-> 0, ordered_packages |-> <<>>, stops |-> <<>>]

\* max(1, self._max_boxes)
max_actions(self) == IF Len(self._packages) > 1 THEN Len(self._packages) ELSE 1

\* one turn of the loop of _run_episode or _rollout_policy with the action
\* chosen: remaining.pop(action) raises IndexError out of range
LoopStep(self, action, valid_actions) ==
    IF action \notin DOMAIN self.remaining
    THEN [self EXCEPT !.phase = "IndexError", !.action = action,
                      !.valid_actions = valid_actions]
    ELSE LET st == EnvStep(self.remaining, action)
         IN [self EXCEPT !.remaining = st.remaining,
                         !.action = action,
                         !.valid_actions = valid_actions,
                         !.ordered_packages = Append(@, st.pkg),
                         !.stops = Append(@, st.pkg.destination)]

\* env.reset() before the next episode or the rollout
reset(self, phase, episode) ==
    [self EXCEPT !.remaining = self._packages, !.phase = phase, !.episode = episode,
                 !.action = 0, !.valid_actions = 0, !.ordered_packages = <<>>,
                 !.stops = <<>>]

\* the action of the greedy rollout: the argmax over the valid actions; the
\* weights are arbitrary, policy ranks the package ids and stands for them
RolloutAction(remaining, policy) ==
    CHOOSE a \in DOMAIN remaining :
        \A b \in DOMAIN remaining : policy[remaining[a].id] <= policy[remaining[b].id]

RECURSIVE RolloutLoop(_, _, _, _)
RolloutLoop(remaining, policy, ordered_packages, stops) ==
    IF remaining = <<>> THEN [ordered_packages |-> ordered_packages, stops |-> stops]
    ELSE LET Move(st) == RolloutLoop(st.remaining, policy, Append(ordered_packages, st.pkg),
                                     Append(stops, st.pkg.destination))
         IN CHOOSE computed \in {Move(given) : given \in {EnvStep(remaining, RolloutAction(remaining, policy))}} : TRUE

_rollout_policy(pkgs, policy) == RolloutLoop(pkgs, policy, <<>>, <<>>)

_train_and_plan(vehicle, pkgs, policy) ==
    LET rolled == _rollout_policy(pkgs, policy)
    IN IF rolled.ordered_packages = <<>>
       THEN LET ordered == optimize_package_sequence(pkgs)
            IN [ordered_packages |-> ordered,
                stops |-> [i \in DOMAIN ordered |-> ordered[i].destination]]
       ELSE rolled

\* the route of one vehicle: the learned order, or the nearest-neighbour order
\* when the learned route is not valid
NeuralRoute(vehicle, selection, policy) ==
    LET planned == _train_and_plan(vehicle, selection, policy)
        route == Route(vehicle, planned.ordered_packages, planned.stops)
    IN IF is_valid(route) THEN route
       ELSE LET ordered == optimize_package_sequence(selection)
            IN Route(vehicle, ordered, [i \in DOMAIN ordered |-> ordered[i].destination])

\* the loop over the fleet of NeuralRAgent.plan_routes
RECURSIVE NeuralLoop(_, _, _, _)
NeuralLoop(vehs, remaining, routes, policy) ==
    IF vehs = <<>> THEN [routes |-> routes, remaining |-> remaining]
    ELSE LET vehicle == Head(vehs)
             Add(route) == NeuralLoop(Tail(vehs), RemoveAll(remaining, route.packages),
                                      Append(routes, route), policy)
             Plan(selection) ==
                 IF selection = <<>> THEN NeuralLoop(Tail(vehs), remaining, routes, policy)
                 ELSE CHOOSE computed \in {Add(given) : given \in {NeuralRoute(vehicle, selection, policy)}} : TRUE
         IN CHOOSE computed \in {Plan(given) : given \in {_select_packages_for_vehicle(vehicle, remaining)}} : TRUE

\* NeuralRAgent.plan_routes: printed is the number of packages its warning names
NeuralRAgent_plan_routes(pkgs, vehs, policy) ==
    IF ~validate_inputs(pkgs, vehs)
    THEN [routes |-> <<>>, raised |-> FALSE, packages |-> pkgs, fleet |-> vehs, printed |-> 0]
    ELSE LET remaining == deepcopy(pkgs)
             Return(done) ==
                 [routes |-> done.routes,
                  raised |-> FALSE,
                  packages |-> IF remaining.alias THEN done.remaining ELSE pkgs,
                  fleet |-> vehs,
                  printed |-> Len(done.remaining)]
         IN CHOOSE computed \in {Return(given) : given \in {NeuralLoop(vehs, remaining.val, <<>>, policy)}} : TRUE

(* ------------- agent_r_old.py, agent_r_nocheat.py, blank_agent.py ------ *)
_create_route(vehicle, boxes) ==
    Route(vehicle, boxes, [i \in DOMAIN boxes |-> boxes[i].destination])

\* the loops of plan_routes in agent_r_old.py and agent_r_nocheat.py: one route
\* per box, holding the box once for each vehicle, on the last vehicle; with no
\* vehicle the name v is unbound at _create_route(v, ...) and the call raises
BoxPerVehicleRoutes(boxes, veh) ==
    IF boxes # <<>> /\ veh = <<>>
    THEN [routes |-> <<>>, raised |-> TRUE]
    ELSE [routes |-> [i \in DOMAIN boxes |->
                         _create_route(Last(veh), [k \in DOMAIN veh |-> boxes[i]])],
          raised |-> FALSE]

\* agent_r_old.py RAgent.plan_routes
RAgentOld_plan_routes(pkgs, vehs) ==
    LET veh == deepcopy(vehs)
        boxes == deepcopy(pkgs)
        done == BoxPerVehicleRoutes(boxes.val, veh.val)
    IN [routes |-> done.routes, raised |-> done.raised, packages |-> pkgs, fleet |-> vehs]

\* agent_r_nocheat.py RAgent.plan_routes
RAgentNoCheat_plan_routes(pkgs, vehs) ==
    IF ~validate_inputs(pkgs, vehs)
    THEN [routes |-> <<>>, raised |-> FALSE, packages |-> pkgs, fleet |-> vehs]
    ELSE RAgentOld_plan_routes(pkgs, vehs)

\* blank_agent.py CustomAgent.plan_routes
CustomAgent_plan_routes(pkgs, vehs) ==
    [routes |-> <<>>, raised |-> FALSE, packages |-> pkgs, fleet |-> vehs]

(* ------------------ ui/manual_mode.py: manual assignment -------------- *)
\* an optional reference: <<>> is None, <<x>> refers to x
None == <<>>

vehicles_per_page == 2

\* Vehicle.calculate_trip_cost(distance)
calculate_trip_cost(vehicle, distance) == distance * vehicle.cost_per_km

\* VehicleCard.__init__: nothing assigned, no stops, the metrics at zero
VehicleCard(vehicle) ==
    [vehicle |-> vehicle, assigned_packages |-> <<>>, route_stops |-> <<>>,
     total_distance |-> 0, total_cost |-> 0, total_revenue |-> 0, total_profit |-> 0]

get_current_volume(card) == TotalVolume(card.assigned_packages)

CanAddAlways(card, package) == TRUE

\* VehicleCard.can_add_package
can_add_package(card, package) ==
    get_current_volume(card) + package.volume_m3 <= card.vehicle.capacity_m3

\* VehicleCard.add_package: the card after the call and what the call returned
add_package(card, package) ==
    IF can_add_package(card, package)
    THEN [card |-> [card EXCEPT !.assigned_packages = Append(@, package)], ret |-> TRUE]
    ELSE [card |-> card, ret |-> FALSE]

\* VehicleCard.calculate_metrics
calculate_metrics(card) ==
    LET revenue == SumSeq([i \in DOMAIN card.assigned_packages |->
                             card.assigned_packages[i].payment])
    IN IF card.route_stops = <<>>
       THEN [card EXCEPT !.total_distance = 0, !.total_cost = 0,
                         !.total_revenue = revenue, !.total_profit = revenue]
       ELSE LET distance == RouteDistance(card.route_stops)
                cost == calculate_trip_cost(card.vehicle, distance)
            IN [card EXCEPT !.total_distance = distance, !.total_cost = cost,
                            !.total_revenue = revenue, !.total_profit = revenue - cost]

AppendStopAlways(route_stops, destination) == Append(route_stops, destination)

\* if destination not in route_stops: route_stops.append(destination)
AppendStop(route_stops, destination) ==
    IF destination \in Range(route_stops) THEN route_stops ELSE Append(route_stops, destination)

\* next((p for p in self.all_packages if p.id == pkg_id), None)
FindPackage(all_packages, pkg_id) ==
    LET found == SelectSeq(all_packages, LAMBDA p : p.id = pkg_id)
    IN IF found = <<>> THEN None ELSE <<found[1]>>

\* ManualModeManager after __init__ and setup(packages, vehicles), before the
\* pages are built
ManualModeManager(pkgs, vehs) ==
    [all_packages |-> pkgs, all_vehicles |-> vehs, assignments |-> <<>>,
     vehicle_cards |-> <<>>, vehicle_page |-> 0,
     selected_package |-> None, selected_vehicle |-> None]

\* the card of veh filled from the assignments, in their order of insertion
RECURSIVE FillCard(_, _, _)
FillCard(card, assignments, all_packages) ==
    IF assignments = <<>> THEN card
    ELSE LET pkg_id == Head(assignments)[1]
             veh_id == Head(assignments)[2]
             pkg == FindPackage(all_packages, pkg_id)
             next == IF veh_id = card.vehicle.id /\ pkg # None
                     THEN [add_package(card, pkg[1]).card EXCEPT
                             !.route_stops = AppendStop(@, pkg[1].destination)]
                     ELSE card
         IN FillCard(next, Tail(assignments), all_packages)

\* _build_vehicle_page: new cards for the vehicles of the current page; the
\* selected card is replaced by the new card of its vehicle
_build_vehicle_page(self) ==
    LET start_idx == self.vehicle_page * vehicles_per_page
        end_idx == IF start_idx + vehicles_per_page < Len(self.all_vehicles)
                   THEN start_idx + vehicles_per_page ELSE Len(self.all_vehicles)
        Card(veh) ==
            LET filled == FillCard(VehicleCard(veh), self.assignments, self.all_packages)
            IN IF filled.route_stops # <<>> THEN calculate_metrics(filled) ELSE filled
        cards == [k \in 1..(end_idx - start_idx) |-> Card(self.all_vehicles[start_idx + k])]
        mine == IF self.selected_vehicle = None THEN <<>>
                ELSE SelectSeq(cards,
                               LAMBDA c : c.vehicle.id = self.selected_vehicle[1].vehicle.id)
    IN [self EXCEPT !.vehicle_cards = cards,
                    !.selected_vehicle = IF mine = <<>> THEN @ ELSE <<mine[Len(mine)]>>]

\* ManualModeManager.setup(packages, vehicles)
setup(pkgs, vehs) == _build_vehicle_page(ManualModeManager(pkgs, vehs))

\* the selected card is one of the cards of the page when its vehicle is shown:
\* a change of the selected card is a change of that page card
WithSelectedCard(self, card) ==
    [self EXCEPT !.selected_vehicle = <<card>>,
                 !.vehicle_cards = [k \in DOMAIN @ |->
                                      IF @[k].vehicle.id = card.vehicle.id THEN card ELSE @[k]]]

\* the assignment both assign_selected and assign_package_from_map make
Assigned(self, pkg) ==
    LET card == self.selected_vehicle[1]
        added == add_package(card, pkg).card
        stopped == [added EXCEPT !.route_stops = AppendStop(@, pkg.destination)]
    IN [WithSelectedCard(self, calculate_metrics(stopped)) EXCEPT
          !.assignments = Append(@, <<pkg.id, card.vehicle.id>>),
          !.selected_package = None]

IsAssigned(self, pkg_id) == \E k \in DOMAIN self.assignments : self.assignments[k][1] = pkg_id

\* ManualModeManager.assign_selected
assign_selected(self) ==
    IF self.selected_package # None /\ self.selected_vehicle # None
    THEN LET pkg == self.selected_package[1]
         IN IF IsAssigned(self, pkg.id) THEN [self |-> self, ret |-> FALSE]
            ELSE IF can_add_package(self.selected_vehicle[1], pkg)
                 THEN [self |-> Assigned(self, pkg), ret |-> TRUE]
                 ELSE [self |-> self, ret |-> FALSE]
    ELSE [self |-> self, ret |-> FALSE]

\* ManualModeManager.assign_package_from_map(package)
assign_package_from_map(self, package) ==
    IF self.selected_vehicle = None THEN [self |-> self, ret |-> FALSE]
    ELSE IF IsAssigned(self, package.id) THEN [self |-> self, ret |-> FALSE]
    ELSE IF can_add_package(self.selected_vehicle[1], package)
         THEN [self |-> Assigned(self, package), ret |-> TRUE]
         ELSE [self |-> self, ret |-> FALSE]

\* ManualModeManager.clear_assignments
clear_assignments(self) ==
    IF self.assignments = <<>> THEN [self |-> self, ret |-> FALSE]
    ELSE LET selected_id == IF self.selected_vehicle # None
                            THEN <<self.selected_vehicle[1].vehicle.id>> ELSE None
             rebuilt == _build_vehicle_page([self EXCEPT !.assignments = <<>>,
                                                         !.selected_package = None])
             shown == IF selected_id = None THEN <<>>
                      ELSE SelectSeq(rebuilt.vehicle_cards,
                                     LAMBDA c : c.vehicle.id = selected_id[1])
         IN [self |-> [rebuilt EXCEPT !.selected_vehicle =
                                          IF shown = <<>> THEN None ELSE <<shown[1]>>],
             ret |-> TRUE]

\* the packages and the stops get_manual_routes collects for the vehicle from
\* the assignments, in their order of insertion
RECURSIVE Collected(_, _, _, _)
Collected(parts, veh, assignments, all_packages) ==
    IF assignments = <<>> THEN parts
    ELSE LET pkg == FindPackage(all_packages, Head(assignments)[1])
             next == IF Head(assignments)[2] = veh.id /\ pkg # None
                     THEN [assigned_pkgs |-> Append(parts.assigned_pkgs, pkg[1]),
                           route_stops |-> AppendStop(parts.route_stops, pkg[1].destination)]
                     ELSE parts
         IN Collected(next, veh, Tail(assignments), all_packages)

RouteForEveryVehicle(self) ==
    LET Parts(veh) == Collected([assigned_pkgs |-> <<>>, route_stops |-> <<>>], veh,
                                self.assignments, self.all_packages)
    IN [k \in DOMAIN self.all_vehicles |->
          Route(self.all_vehicles[k], Parts(self.all_vehicles[k]).assigned_pkgs,
                Parts(self.all_vehicles[k]).route_stops)]

\* ManualModeManager.get_manual_routes: a route for every vehicle that has
\* packages assigned and stops
get_manual_routes(self) ==
    LET Parts(veh) == Collected([assigned_pkgs |-> <<>>, route_stops |-> <<>>], veh,
                                self.assignments, self.all_packages)
        Has(veh) == Parts(veh).assigned_pkgs # <<>> /\ Parts(veh).route_stops # <<>>
        with == SelectSeq(self.all_vehicles, Has)
    IN [k \in DOMAIN with |->
          Route(with[k], Parts(with[k]).assigned_pkgs, Parts(with[k]).route_stops)]

(* ------------------------- core/difficulty.py ------------------------- *)
\* a float is kept as an exact fraction <<numerator, denominator>>
RECURSIVE GCD(_, _)
GCD(a, b) == IF b = 0 THEN a ELSE GCD(b, a % b)

\* the fraction in lowest terms
Lowest(q) ==
    LET g == GCD(IF q[1] < 0 THEN -q[1] ELSE q[1], q[2])
    IN IF g = 0 THEN <<0, 1>> ELSE <<q[1] \div g, q[2] \div g>>

\* int(round(q)): Python rounds a half to the even neighbour
Round(q) ==
    LET floor == q[1] \div q[2]
        rest == q[1] - floor * q[2]
    IN IF 2 * rest < q[2] THEN floor
       ELSE IF 2 * rest > q[2] THEN floor + 1
       ELSE IF floor % 2 = 0 THEN floor ELSE floor + 1

DemandTier == [CALM |-> "Calm", BUSY |-> "Busy", PEAK |-> "Peak", FRENZY |-> "Frenzy"]

Unclamped(score) == score

\* clamp_popularity(score), score a whole number
clamp_popularity(score) ==
    LET capped == IF score < 1000 THEN score ELSE 1000
    IN IF capped > 0 THEN capped ELSE 0

\* compute_popularity_delta; delivered_ratio is a fraction, profit and penalties
\* are whole numbers
compute_popularity_delta(delivered_ratio, profit, penalties, day, current_popularity) ==
    LET d == delivered_ratio[1]
        a == delivered_ratio[2]
        \* base_delta = (delivered_ratio - 0.75) * 80
        base_delta == <<80 * d - 60 * a, a>>
        \* profit_factor = min(max(profit / 5000, -1), 1) * 10
        bounded == IF profit < -5000 THEN -5000 ELSE IF profit > 5000 THEN 5000 ELSE profit
        profit_factor == <<bounded, 500>>
        penalty_impact == -penalties * 15
        delta == <<base_delta[1] * 500 + profit_factor[1] * a + penalty_impact * a * 500,
                   a * 500>>
        tutorial == IF day <= 5 THEN <<delta[1] * 2, delta[2] * 5>> ELSE delta
        plateau == IF current_popularity >= 800 /\ tutorial[1] > 0
                   THEN <<tutorial[1] * 3, tutorial[2] * 5>> ELSE tutorial
        comeback == IF current_popularity <= 200 /\ plateau[1] > 0
                    THEN <<plateau[1] * 13, plateau[2] * 10>> ELSE plateau
    IN Round(comeback)

\* determine_demand_tier(popularity, marketing_level)
determine_demand_tier(popularity, marketing_level) ==
    LET effective_score == popularity + (marketing_level - 1) * 40
    IN IF effective_score < 220 THEN DemandTier.CALM
       ELSE IF effective_score < 480 THEN DemandTier.BUSY
       ELSE IF effective_score < 720 THEN DemandTier.PEAK
       ELSE DemandTier.FRENZY

\* build_modifiers(...)["reward_multiplier"], a fraction
reward_multiplier(demand_tier) ==
    IF demand_tier = DemandTier.CALM THEN <<19, 20>>
    ELSE IF demand_tier = DemandTier.BUSY THEN <<1, 1>>
    ELSE IF demand_tier = DemandTier.PEAK THEN <<11, 10>>
    ELSE <<6, 5>>

\* create_difficulty_snapshot: the tier and the reward multiplier of the
\* snapshot; its challenge index and the other modifiers are read by no
\* operation of the game state
create_difficulty_snapshot(popularity, marketing_level) ==
    [popularity |-> popularity,
     demand_tier |-> determine_demand_tier(popularity, marketing_level),
     reward_multiplier |-> reward_multiplier(determine_demand_tier(popularity,
                                                                    marketing_level))]

(* ------------------------ models/game_state.py ------------------------ *)
VehicleType(name, capacity_m3, cost_per_km, purchase_price, max_range_km) ==
    [name |-> name, capacity_m3 |-> capacity_m3, cost_per_km |-> cost_per_km,
     purchase_price |-> purchase_price, max_range_km |-> max_range_km]

\* Vehicle(id=vehicle_id, vehicle_type=vehicle_type, purchase_day=current_day)
PurchasedVehicle(vehicle_id, vehicle_type, purchase_day) ==
    [id |-> vehicle_id, name |-> vehicle_type.name,
     capacity_m3 |-> vehicle_type.capacity_m3,
     cost_per_km |-> vehicle_type.cost_per_km, max_range_km |-> vehicle_type.max_range_km,
     purchase_price |-> vehicle_type.purchase_price, purchase_day |-> purchase_day,
     current_location |-> <<0, 0>>]

\* pkg.is_rush, False when the package data has no such key
is_rush(pkg) == "is_rush" \in DOMAIN pkg /\ pkg.is_rush

\* Route.total_revenue, Route.total_cost
total_revenue(route) == SumSeq([i \in DOMAIN route.packages |-> route.packages[i].payment])

total_cost(route) == calculate_total_distance(route) * route.vehicle.cost_per_km

\* GameState.__init__(initial_balance, start_day)
GameState(initial_balance, start_day) ==
    [current_day |-> start_day,
     balance |-> initial_balance,
     fleet |-> <<>>,
     packages_pending |-> <<>>,
     packages_in_transit |-> <<>>,
     packages_delivered |-> <<>>,
     current_routes |-> <<>>,
     history |-> <<>>,
     marketing_level |-> 1,
     popularity_score |-> 300,
     last_popularity_delta |-> 0,
     popularity_history |-> <<300>>,
     recent_penalty_score |-> <<0, 1>>,
     current_demand_tier |-> DemandTier.CALM,
     reward_multiplier |-> <<1, 1>>,
     missed_delivery_penalty_rate |-> <<2, 5>>]

PurchaseOnCredit(self, vehicle_type, vehicle_id) ==
    [self |-> [self EXCEPT
                 !.balance = @ - vehicle_type.purchase_price,
                 !.fleet = Append(@, PurchasedVehicle(vehicle_id, vehicle_type,
                                                      self.current_day))],
     ret |-> TRUE]

\* GameState.purchase_vehicle(vehicle_type, vehicle_id)
purchase_vehicle(self, vehicle_type, vehicle_id) ==
    IF self.balance >= vehicle_type.purchase_price
    THEN [self |-> [self EXCEPT
                      !.balance = @ - vehicle_type.purchase_price,
                      !.fleet = Append(@, PurchasedVehicle(vehicle_id, vehicle_type,
                                                           self.current_day))],
          ret |-> TRUE]
    ELSE [self |-> self, ret |-> FALSE]

\* pkg.received_day = self.current_day
Received(pkg, day) ==
    [f \in DOMAIN pkg \cup {"received_day"} |-> IF f = "received_day" THEN day ELSE pkg[f]]

\* GameState.load_packages(packages)
load_packages(self, pkgs) ==
    [self EXCEPT !.packages_pending =
                     @ \o [i \in DOMAIN pkgs |-> Received(pkgs[i], self.current_day)]]

\* GameState.set_routes(routes)
set_routes(self, routes) == [self EXCEPT !.current_routes = routes]

\* GameState.compute_difficulty_snapshot with register_difficulty_snapshot
compute_difficulty_snapshot(self) ==
    LET snapshot == create_difficulty_snapshot(self.popularity_score, self.marketing_level)
    IN [self EXCEPT !.current_demand_tier = snapshot.demand_tier,
                    !.reward_multiplier = snapshot.reward_multiplier]

UpdateWithoutHistory(self, delivered_ratio, profit, penalties) ==
    LET delta == compute_popularity_delta(delivered_ratio, profit, penalties,
                                          self.current_day, self.popularity_score)
    IN [self EXCEPT !.last_popularity_delta = delta,
                    !.popularity_score = clamp_popularity(self.popularity_score + delta)]

\* GameState._update_popularity(delivered_ratio, profit, penalties)
_update_popularity(self, delivered_ratio, profit, penalties) ==
    LET delta == compute_popularity_delta(delivered_ratio, profit, penalties,
                                          self.current_day, self.popularity_score)
        score == clamp_popularity(self.popularity_score + delta)
        \* max(0.0, recent_penalty_score * 0.6 + penalties)
        decayed == <<self.recent_penalty_score[1] * 3
                        + penalties * 5 * self.recent_penalty_score[2],
                     self.recent_penalty_score[2] * 5>>
    IN [self EXCEPT !.last_popularity_delta = delta,
                    !.popularity_score = score,
                    !.popularity_history = Append(@, score),
                    !.recent_penalty_score = IF decayed[1] > 0 THEN Lowest(decayed)
                                             ELSE <<0, 1>>]

NoPenalty(pkg) == 0

\* pkg.payment * self.missed_delivery_penalty_rate, the rate 0.4; the payments
\* of the game's packages are multiples of 5
MissedPenalty(pkg) == (pkg.payment * 2) \div 5

\* list.extend over the package lists of the routes, in order
RECURSIVE Extend(_, _)
Extend(list, routes) ==
    IF routes = <<>> THEN list ELSE Extend(list \o Head(routes).packages, Tail(routes))

PendingKeptWhole(pending, delivered_ids) == pending

\* the pending packages whose id is not among the delivered ids
PendingOnly(pending, delivered_ids) ==
    SelectSeq(pending, LAMBDA pkg : pkg.id \notin delivered_ids)

\* GameState.execute_routes(agent_name): the state after the call and the
\* profit returned
ExecuteDay(self, agent_name) ==
         LET routes == self.current_routes
             revenue == SumSeq([r \in DOMAIN routes |-> total_revenue(routes[r])])
             cost == SumSeq([r \in DOMAIN routes |-> total_cost(routes[r])])
             total_distance ==
                 SumSeq([r \in DOMAIN routes |-> calculate_total_distance(routes[r])])
             delivered_packages == Extend(<<>>, routes)
             packages_attempted == Len(self.packages_pending)
             delivered_ids == {delivered_packages[i].id : i \in DOMAIN delivered_packages}
             undelivered_packages == PendingOnly(self.packages_pending, delivered_ids)
             delivered_count == Len(delivered_packages)
             delivered_ratio == IF packages_attempted > 0
                                THEN <<delivered_count, packages_attempted>> ELSE <<1, 1>>
             undelivered_count == Len(undelivered_packages)
             rush_failures == Len(SelectSeq(undelivered_packages, is_rush))
             penalty_units == undelivered_count + rush_failures * 2
             penalty_amount ==
                 SumSeq([i \in DOMAIN undelivered_packages |->
                           MissedPenalty(undelivered_packages[i])])
             total_on_costs == cost + penalty_amount
             total_profit == revenue - total_on_costs
             moved == [self EXCEPT !.packages_delivered = @ \o delivered_packages,
                                   !.packages_pending = undelivered_packages,
                                   !.balance = @ + (revenue - cost) - penalty_amount]
             rated == compute_difficulty_snapshot(
                          _update_popularity(moved, delivered_ratio, total_profit,
                                             penalty_units))
             day_record ==
                 [day |-> self.current_day,
                  packages_delivered |-> delivered_count,
                  packages_attempted |-> packages_attempted,
                  revenue |-> revenue,
                  costs |-> total_on_costs,
                  profit |-> total_profit,
                  agent_used |-> agent_name,
                  routes_count |-> Len(routes),
                  total_distance |-> total_distance,
                  balance_end |-> rated.balance,
                  popularity_start |-> self.popularity_score,
                  popularity_end |-> rated.popularity_score,
                  popularity_delta |-> rated.last_popularity_delta,
                  demand_tier |-> rated.current_demand_tier,
                  penalties |-> penalty_amount]
         IN [self |-> [rated EXCEPT !.history = Append(@, day_record)],
             ret |-> total_profit,
             warned |-> FALSE]

ExecuteAlways(self, agent_name) == ExecuteDay(self, agent_name)

\* GameState.execute_routes(agent_name): nothing happens without routes
execute_routes(self, agent_name) ==
    IF self.current_routes = <<>> THEN [self |-> self, ret |-> 0, warned |-> TRUE]
    ELSE ExecuteDay(self, agent_name)

\* DayHistory.delivery_rate, a fraction of 100
delivery_rate(record) ==
    IF record.packages_attempted > 0
    THEN <<record.packages_delivered * 100, record.packages_attempted>>
    ELSE <<0, 1>>

AdvanceKeepPending(self) ==
    [self EXCEPT !.current_day = @ + 1,
                 !.current_routes = <<>>,
                 !.packages_in_transit = <<>>]

\* GameState.advance_day
advance_day(self) ==
    [self EXCEPT !.current_day = @ + 1,
                 !.current_routes = <<>>,
                 !.packages_in_transit = <<>>,
                 !.packages_pending = <<>>,
                 !.recent_penalty_score = Lowest(<<@[1], @[2] * 2>>)]

\* GameState.is_game_over: (game_over, reason); the victory text carries the
\* balance
is_game_over(self) ==
    IF self.balance < 0 THEN <<TRUE, "Bankruptcy - Balance below $0">>
    ELSE IF /\ Len(self.history) >= 3
            /\ \A h \in (Len(self.history) - 2)..Len(self.history) :
                   self.history[h].profit < 0
    THEN <<TRUE, "Three consecutive days of losses">>
    ELSE IF self.current_day > 30 /\ self.balance > 200000
    THEN <<TRUE, "Victory! Reached day 30", self.balance>>
    ELSE <<FALSE, "">>

\* GameState.get_marketing_cost
get_marketing_cost(self) ==
    CASE self.marketing_level = 1 -> 20000
      [] self.marketing_level = 2 -> 35000
      [] self.marketing_level = 3 -> 55000
      [] self.marketing_level = 4 -> 80000
      [] OTHER -> 0

UpgradePastMax(self) ==
    IF self.balance >= get_marketing_cost(self)
    THEN [self |-> [self EXCEPT !.balance = @ - get_marketing_cost(self),
                                !.marketing_level = @ + 1],
          ret |-> TRUE]
    ELSE [self |-> self, ret |-> FALSE]

\* GameState.upgrade_marketing
upgrade_marketing(self) ==
    IF self.marketing_level >= 5 THEN [self |-> self, ret |-> FALSE]
    ELSE LET cost == get_marketing_cost(self)
         IN IF self.balance >= cost
            THEN [self |-> [self EXCEPT !.balance = @ - cost, !.marketing_level = @ + 1],
                  ret |-> TRUE]
            ELSE [self |-> self, ret |-> FALSE]

(* ------------------------ utils/data_loader.py ------------------------ *)
\* the capital letters of the names of the vehicle types and their small ones
LowerCase == [S |-> "s", V |-> "v", M |-> "m", T |-> "t"]

\* str.lower() of a text spelled as the sequence of its characters
lower(text) ==
    [i \in DOMAIN text |-> IF text[i] \in DOMAIN LowerCase THEN LowerCase[text[i]]
                           ELSE text[i]]

\* str.replace(old, new) for a single character
replace(text, old, new) == [i \in DOMAIN text |-> IF text[i] = old THEN new ELSE text[i]]

\* list[-n:]
LastN(list, n) == IF Len(list) <= n THEN list ELSE SubSeq(list, Len(list) - n + 1, Len(list))

\* dict.get(key, default)
get(data, key, default) == IF key \in DOMAIN data THEN data[key] ELSE default

\* DataLoader.save_game_state: the dictionary it writes as JSON
save_game_state(game_state) ==
    [current_day |-> game_state.current_day,
     balance |-> game_state.balance,
     marketing_level |-> game_state.marketing_level,
     popularity |-> game_state.popularity_score,
     popularity_delta |-> game_state.last_popularity_delta,
     popularity_history |-> LastN(game_state.popularity_history, 50),
     demand_tier |-> game_state.current_demand_tier,
     penalty_rate |-> game_state.missed_delivery_penalty_rate,
     fleet |-> [i \in DOMAIN game_state.fleet |->
                 LET v == game_state.fleet[i]
                 IN [id |-> v.id,
                     type |-> replace(lower(v.name), " ", "_"),
                     purchase_day |-> v.purchase_day,
                     current_location |-> [x |-> v.current_location[1],
                                           y |-> v.current_location[2]]]],
     history |-> [i \in DOMAIN game_state.history |->
                   LET h == game_state.history[i]
                   IN [day |-> h.day,
                       packages_delivered |-> h.packages_delivered,
                       packages_attempted |-> h.packages_attempted,
                       revenue |-> h.revenue,
                       costs |-> h.costs,
                       profit |-> h.profit,
                       agent_used |-> h.agent_used,
                       balance_end |-> h.balance_end,
                       popularity_start |-> h.popularity_start,
                       popularity_end |-> h.popularity_end,
                       popularity_delta |-> h.popularity_delta,
                       demand_tier |-> h.demand_tier,
                       penalties |-> get(h, "penalties", 0)]]]

\* DataLoader.load_game_state: the GameState built from the dictionary read;
\* a type that the table does not have is a KeyError
load_game_state(data, vehicle_types) ==
    LET fresh == GameState(data.balance, data.current_day)
        scored == [fresh EXCEPT
                     !.marketing_level = get(data, "marketing_level", @),
                     !.popularity_score = get(data, "popularity", @),
                     !.last_popularity_delta = get(data, "popularity_delta", 0),
                     !.popularity_history = <<get(data, "popularity", fresh.popularity_score)>>,
                     !.missed_delivery_penalty_rate = get(data, "penalty_rate", @)]
        recent == IF "popularity_history" \in DOMAIN data
                  THEN [scored EXCEPT
                          !.popularity_history = LastN(data.popularity_history, 20),
                          !.popularity_score = Last(LastN(data.popularity_history, 20))]
                  ELSE scored
        history_entry(record) ==
            [day |-> record.day,
             packages_delivered |-> record.packages_delivered,
             packages_attempted |-> record.packages_attempted,
             revenue |-> record.revenue,
             costs |-> record.costs,
             profit |-> record.profit,
             agent_used |-> get(record, "agent_used", "Manual"),
             routes_count |-> get(record, "routes_count", 0),
             total_distance |-> get(record, "total_distance", 0),
             balance_end |-> get(record, "balance_end", recent.balance),
             popularity_start |-> get(record, "popularity_start", recent.popularity_score),
             popularity_end |-> get(record, "popularity_end", recent.popularity_score),
             popularity_delta |-> get(record, "popularity_delta", 0),
             demand_tier |-> get(record, "demand_tier", DemandTier.CALM),
             penalties |-> get(record, "penalties", 0)]
        vehicle(vehicle_data) ==
            LET loc == get(vehicle_data, "current_location", [x |-> 0, y |-> 0])
            IN [PurchasedVehicle(vehicle_data.id, vehicle_types[vehicle_data.type],
                                 get(vehicle_data, "purchase_day", 0))
                   EXCEPT !.current_location = <<loc.x, loc.y>>]
        saved_fleet == get(data, "fleet", <<>>)
        saved_history == get(data, "history", <<>>)
    IN IF \E i \in DOMAIN saved_fleet : saved_fleet[i].type \notin DOMAIN vehicle_types
       THEN [raised |-> "KeyError"]
       ELSE [recent EXCEPT
            !.history = [i \in DOMAIN saved_history |-> history_entry(saved_history[i])],
            !.fleet = [i \in DOMAIN saved_fleet |-> vehicle(saved_fleet[i])]]

(* ------------------- main_pygame.py: DeliveryFleetApp ----------------- *)
(* The window in AUTO mode. planned_routes and packages_pending are kept   *)
(* as "is not empty"; times are tenths of a second. What the engine and    *)
(* the agents decide (whether packages arrive, whether they fit the fleet, *)
(* whether routes are found) comes in as the inputs of the handlers.       *)

\* the modals whose visibility process_autoplay and _determine_autoplay_action test
BlockingModals == {"day_summary", "capacity_warning", "vehicle"}

\* DeliveryFleetApp.__init__ up to the first start_day_flow
DeliveryFleetApp ==
    [running |-> TRUE,
     mode |-> "AUTO",
     visible |-> {},
     day_summary_buttons |-> "none",
     autoplay_enabled |-> FALSE,
     autoplay_speed |-> 1,
     autoplay_timer |-> 0,
     autoplay_action |-> "None",
     auto_plan_deferred |-> FALSE,
     planned_routes |-> FALSE,
     packages_pending |-> FALSE,
     execute_enabled |-> FALSE,
     next_day_enabled |-> FALSE,
     frame |-> [did |-> "nothing", action |-> "None", visible |-> {}]]

\* Modal.show
show(self, modal) == [self EXCEPT !.visible = @ \cup {modal}]

\* Modal.hide
hide(self, modal) == [self EXCEPT !.visible = @ \ {modal}]

\* auto_plan_routes; routes_found: the selected agent returned routes
auto_plan_routes(self, routes_found) ==
    LET cleared == [self EXCEPT !.auto_plan_deferred = FALSE]
    IN IF ~cleared.packages_pending THEN cleared
       ELSE IF cleared.mode = "MANUAL" THEN cleared
       ELSE IF routes_found
            THEN [cleared EXCEPT !.planned_routes = TRUE, !.execute_enabled = TRUE]
            ELSE [cleared EXCEPT !.planned_routes = FALSE, !.execute_enabled = FALSE]

\* _maybe_execute_deferred_auto_plan
_maybe_execute_deferred_auto_plan(self, routes_found) ==
    IF ~self.auto_plan_deferred THEN self
    ELSE IF self.mode # "AUTO" THEN [self EXCEPT !.auto_plan_deferred = FALSE]
    ELSE auto_plan_routes([self EXCEPT !.auto_plan_deferred = FALSE], routes_found)

\* show_day_summary and show_day_preview: the same modal with other buttons
show_day_summary(self) == [show(self, "day_summary") EXCEPT !.day_summary_buttons = "summary"]

show_day_preview(self) == [show(self, "day_summary") EXCEPT !.day_summary_buttons = "preview"]

\* start_day_flow; pending: the day has packages, fits: their volume is
\* within the capacity of the fleet
start_day_flow(self, pending, fits, routes_found) ==
    LET started == [self EXCEPT !.auto_plan_deferred = FALSE, !.packages_pending = pending]
        flowed ==
            IF ~fits
            THEN show_day_summary(IF started.mode = "AUTO"
                                  THEN [started EXCEPT !.auto_plan_deferred = TRUE]
                                  ELSE started)
            ELSE IF started.mode = "AUTO"
                 THEN IF started.autoplay_enabled
                      THEN auto_plan_routes(started, routes_found)
                      ELSE show_day_preview([started EXCEPT !.auto_plan_deferred = TRUE])
                 ELSE IF ~started.autoplay_enabled THEN show_day_preview(started)
                      ELSE started
    IN IF ~pending THEN started
       ELSE [flowed EXCEPT !.execute_enabled =
                              IF flowed.mode = "MANUAL" THEN TRUE ELSE flowed.planned_routes]

\* stop_autoplay with a message
stop_autoplay(self) ==
    [self EXCEPT !.autoplay_enabled = FALSE, !.autoplay_action = "None",
                 !.autoplay_timer = 0]

\* toggle_autoplay (on_mode_auto is not needed in AUTO mode)
toggle_autoplay(self) ==
    IF ~self.autoplay_enabled
    THEN [self EXCEPT !.autoplay_enabled = TRUE, !.autoplay_timer = 0,
                      !.autoplay_action = "None"]
    ELSE stop_autoplay(self)

\* set_autoplay_speed
set_autoplay_speed(self, speed) ==
    LET clipped == IF speed < 1 THEN 1 ELSE IF speed > 3 THEN 3 ELSE speed
    IN [self EXCEPT !.autoplay_speed = clipped]

\* _get_autoplay_delay: 1.2, 0.7 and 0.4 seconds
_get_autoplay_delay(self) ==
    CASE self.autoplay_speed = 1 -> 12
      [] self.autoplay_speed = 2 -> 7
      [] self.autoplay_speed = 3 -> 4
      [] OTHER -> 10

\* _determine_autoplay_action
_determine_autoplay_action(self) ==
    IF self.visible \cap BlockingModals # {} THEN "None"
    ELSE IF self.next_day_enabled THEN "next_day"
    ELSE IF ~self.planned_routes THEN "plan"
    ELSE "execute"

\* on_execute_day in AUTO mode; left: packages stay pending after the day
on_execute_day(self, routes_found, left) ==
    LET planned == IF ~self.planned_routes THEN auto_plan_routes(self, routes_found)
                   ELSE self
    IN IF ~planned.planned_routes THEN planned
       ELSE [planned EXCEPT !.planned_routes = FALSE,
                            !.packages_pending = @ /\ left,
                            !.execute_enabled = FALSE,
                            !.next_day_enabled = TRUE,
                            !.autoplay_action = "None"]

\* on_next_day
on_next_day(self, pending, fits, routes_found) ==
    start_day_flow([self EXCEPT !.planned_routes = FALSE,
                                !.execute_enabled = FALSE,
                                !.next_day_enabled = FALSE,
                                !.autoplay_action = "None"],
                   pending, fits, routes_found)

\* _execute_autoplay_action; same_count: a new plan has as many routes as
\* the plan before it
_execute_autoplay_action(self, action, pending, fits, routes_found, left, same_count) ==
    CASE action = "plan" ->
            LET planned == auto_plan_routes(self, routes_found)
            IN IF ~planned.planned_routes \/ (self.planned_routes /\ same_count)
               THEN stop_autoplay(planned) ELSE planned
      [] action = "execute" ->
            IF self.planned_routes THEN on_execute_day(self, routes_found, left)
            ELSE stop_autoplay(self)
      [] action = "next_day" ->
            IF self.next_day_enabled THEN on_next_day(self, pending, fits, routes_found)
            ELSE stop_autoplay(self)
      [] OTHER -> self

\* what process_autoplay did in a frame, with the modals visible as it began
Did(self, did, action, after) ==
    [after EXCEPT !.frame = [did |-> did, action |-> action, visible |-> self.visible]]

\* process_autoplay(dt)
process_autoplay(self, dt, pending, fits, routes_found, left, same_count) ==
    IF ~self.autoplay_enabled THEN Did(self, "nothing", "None", self)
    ELSE IF self.visible \cap BlockingModals # {} THEN Did(self, "nothing", "None", self)
    ELSE LET action == IF self.autoplay_action # "None" THEN self.autoplay_action
                       ELSE _determine_autoplay_action(self)
         IN IF action = "None" THEN Did(self, "nothing", "None", self)
            ELSE IF self.autoplay_action = "None"
                 THEN Did(self, "scheduled", action,
                          [self EXCEPT !.autoplay_action = action,
                                       !.autoplay_timer = _get_autoplay_delay(self)])
                 ELSE IF self.autoplay_timer - dt <= 0
                      THEN Did(self, "ran", action,
                               _execute_autoplay_action(
                                   [self EXCEPT !.autoplay_timer = @ - dt,
                                                !.autoplay_action = "None"],
                                   action, pending, fits, routes_found, left, same_count))
                      ELSE Did(self, "counted", action,
                               [self EXCEPT !.autoplay_timer = @ - dt])

(* --------------------------- the state machine ------------------------ *)
VARIABLES
    agent,               \* the class of the agent instance under call
    packages,            \* the caller's package list
    fleet,               \* the caller's fleet list
    _boxes,              \* RAgent._boxes
    _vehicles,           \* RAgent._vehicles
    _assigned_boxes,     \* RAgent._assigned_boxes
    _assigned_vehicles,  \* RAgent._assigned_vehicles
    _routes,             \* RAgent._routes
    result,              \* what the last plan_routes call gave its caller
    printed,             \* the number of packages the last warning named
    router_out,          \* the last call of a tour routine and what it returned
    manual,              \* the ManualModeManager of the game window
    game,                \* the GameState
    env,                 \* the DeliveryEnv and the loop of NeuralRAgent training on it
    app                  \* the DeliveryFleetApp: its modals, buttons and autoplay

vars == <<agent, packages, fleet, _boxes, _vehicles, _assigned_boxes, _assigned_vehicles,
          _routes, result, printed, router_out, manual, game, env, app>>

fields == <<_boxes, _vehicles, _assigned_boxes, _assigned_vehicles, _routes>>

AgentKinds == {"RAgent", "RAgentOld", "RAgentNoCheat", "NeuralRAgent", "CustomAgent"}

NoResult == [status |-> "none", routes |-> <<>>]

NoRouterCall == [op |-> "none"]

\* no manual mode manager, no game state
NoManual == [all_packages |-> <<>>]

NoGame == [current_day |-> 0]

\* no policy network in training
NoEnv == [remaining |-> <<>>, phase |-> "none"]

NoApp == [running |-> FALSE]

Self == RAgentFields(_boxes, _vehicles, _assigned_boxes, _assigned_vehicles, _routes)

\* the orders a policy network can prefer the given packages in
Policies(pkgs) ==
    LET ids == {pkgs[i].id : i \in DOMAIN pkgs}
    IN {f \in [ids -> 1..Len(pkgs)] : \A a, b \in ids : a # b => f[a] # f[b]}

Returned(out) ==
    [status |-> IF out.raised THEN "raised" ELSE "returned",
     routes |-> IF out.raised THEN <<>> ELSE out.routes]

Constructed(kind, pkgs, vehs) ==
    /\ agent = kind
    /\ packages = pkgs
    /\ fleet = vehs
    /\ _boxes = RAgentInit._boxes
    /\ _vehicles = RAgentInit._vehicles
    /\ _assigned_boxes = RAgentInit._assigned_boxes
    /\ _assigned_vehicles = RAgentInit._assigned_vehicles
    /\ _routes = RAgentInit._routes
    /\ result = NoResult
    /\ printed = 0
    /\ router_out = NoRouterCall
    /\ manual = NoManual
    /\ game = NoGame
    /\ env = NoEnv
    /\ app = NoApp

Init ==
    \E kind \in AgentKinds, pkgs \in PackageLists(MaxPkgs), vehs \in FleetLists(MaxVeh) :
        Constructed(kind, pkgs, vehs)

RAgentPlanRoutes ==
    /\ agent = "RAgent"
    /\ \E out \in {RAgent_plan_routes(Self, packages, fleet)} :
          /\ _boxes' = out.self._boxes
          /\ _vehicles' = out.self._vehicles
          /\ _assigned_boxes' = out.self._assigned_boxes
          /\ _assigned_vehicles' = out.self._assigned_vehicles
          /\ _routes' = out.self._routes
          /\ result' = Returned(out)
          /\ packages' = out.packages
          /\ fleet' = out.fleet
    /\ UNCHANGED <<app, env, manual, game, agent, printed, router_out>>

NeuralPlanRoutes ==
    /\ agent = "NeuralRAgent"
    /\ \E policy \in Policies(packages) :
         \E out \in {NeuralRAgent_plan_routes(packages, fleet, policy)} :
            /\ result' = Returned(out)
            /\ packages' = out.packages
            /\ fleet' = out.fleet
            /\ printed' = out.printed
    /\ UNCHANGED <<app, env, manual, game, agent, fields, router_out>>

OldPlanRoutes ==
    /\ agent = "RAgentOld"
    /\ \E out \in {RAgentOld_plan_routes(packages, fleet)} :
          /\ result' = Returned(out)
          /\ packages' = out.packages
          /\ fleet' = out.fleet
    /\ UNCHANGED <<app, env, manual, game, agent, fields, printed, router_out>>

NoCheatPlanRoutes ==
    /\ agent = "RAgentNoCheat"
    /\ \E out \in {RAgentNoCheat_plan_routes(packages, fleet)} :
          /\ result' = Returned(out)
          /\ packages' = out.packages
          /\ fleet' = out.fleet
    /\ UNCHANGED <<app, env, manual, game, agent, fields, printed, router_out>>

CustomPlanRoutes ==
    /\ agent = "CustomAgent"
    /\ \E out \in {CustomAgent_plan_routes(packages, fleet)} :
          /\ result' = Returned(out)
          /\ packages' = out.packages
          /\ fleet' = out.fleet
    /\ UNCHANGED <<app, env, manual, game, agent, fields, printed, router_out>>

Next ==
    \/ RAgentPlanRoutes
    \/ NeuralPlanRoutes
    \/ OldPlanRoutes
    \/ NoCheatPlanRoutes
    \/ CustomPlanRoutes

Spec == Init /\ [][Next]_vars

(* one RAgent instance called again and again by a caller whose lists change *)
\* two packages that fit a vehicle and one that fits none; two vehicles
ReusePackages == {p \in PackageCatalogue : p.id \in {1, 2, 5}}

ReuseVehicles == {v \in VehicleCatalogue : v.id \in {1, 2}}

ReusePackageLists == DistinctSeqs(ReusePackages, MaxReusePkgs)

ReuseFleetLists == DistinctSeqs(ReuseVehicles, MaxReuseVeh)

InitReuse ==
    \E pkgs \in ReusePackageLists, vehs \in ReuseFleetLists : Constructed("RAgent", pkgs, vehs)

\* the caller gets other packages and another fleet and drops the old plan
NewInputs ==
    /\ \E pkgs \in ReusePackageLists, vehs \in ReuseFleetLists :
          /\ <<pkgs, vehs>> # <<packages, fleet>>
          /\ packages' = pkgs
          /\ fleet' = vehs
    /\ result' = NoResult
    /\ UNCHANGED <<app, env, manual, game, agent, fields, printed, router_out>>

NextReuse ==
    \/ RAgentPlanRoutes
    \/ NewInputs

SpecReuse == InitReuse /\ [][NextReuse]_vars

(* the tour routines applied to the destinations of a list of packages *)
Destinations(pkgs) == [i \in DOMAIN pkgs |-> pkgs[i].destination]

InitRouter ==
    \E pkgs \in PackageLists(MaxTour), v \in VehicleCatalogue : Constructed("Router", pkgs, <<v>>)

RouterNearestNeighbor ==
    /\ agent = "Router"
    /\ router_out' = [op |-> "nearest_neighbor_tsp",
                      points |-> Destinations(packages),
                      tour |-> nearest_neighbor_tsp(Destinations(packages), depot)]
    /\ UNCHANGED <<app, env, manual, game, agent, packages, fleet, fields, result, printed>>

RouterTwoOpt ==
    /\ agent = "Router"
    /\ \E max_iterations \in 0..MaxIter :
          router_out' = [op |-> "two_opt_improvement",
                         points |-> Destinations(packages),
                         max_iterations |-> max_iterations,
                         tour |-> two_opt_improvement(Destinations(packages), max_iterations)]
    /\ UNCHANGED <<app, env, manual, game, agent, packages, fleet, fields, result, printed>>

GreedyCluster ==
    /\ agent = "Router"
    /\ router_out' = [op |-> "greedy_cluster",
                      cluster |-> packages,
                      route |-> greedy_cluster(fleet[1], packages)]
    /\ UNCHANGED <<app, env, manual, game, agent, packages, fleet, fields, result, printed>>

NextRouter ==
    \/ RouterNearestNeighbor
    \/ RouterTwoOpt
    \/ GreedyCluster

SpecRouter == InitRouter /\ [][NextRouter]_vars

(* the manual mode window over the packages and the fleet of the day, beside *)
(* the two planners of the automatic mode                                  *)
\* packages of 1, 2 and 3 m3; the three vehicles fill two pages
ManualPackages ==
    {p \in PackageCatalogue : p.id \in {1, 3}} \cup {Package(6, <<3, 0>>, 3, 3)}

ManualPackageLists == DistinctSeqs(ManualPackages, MaxManualPkgs)

ManualFleetLists == DistinctSeqs(VehicleCatalogue, MaxManualVeh)

PlanModes == {"Manual", "RAgent", "NeuralRAgent"}

\* what a call of the manual mode manager gave its caller
Answer(op, value) == [status |-> "returned", routes |-> <<>>, op |-> op, value |-> value]

InitManual ==
    \E mode \in PlanModes, pkgs \in ManualPackageLists, vehs \in ManualFleetLists :
        /\ agent = mode
        /\ packages = pkgs
        /\ fleet = vehs
        /\ _boxes = RAgentInit._boxes
        /\ _vehicles = RAgentInit._vehicles
        /\ _assigned_boxes = RAgentInit._assigned_boxes
        /\ _assigned_vehicles = RAgentInit._assigned_vehicles
        /\ _routes = RAgentInit._routes
        /\ result = NoResult
        /\ printed = 0
        /\ router_out = NoRouterCall
        /\ manual = setup(pkgs, vehs)
        /\ game = NoGame
        /\ env = NoEnv
        /\ app = NoApp

ManualFrame == <<app, env, game, agent, packages, fleet, fields, printed, router_out>>

\* handle_event, a click on a vehicle card of the page: the card's selected
\* flag is toggled and the other cards are deselected
ClickVehicleCard ==
    /\ agent = "Manual"
    /\ \E k \in DOMAIN manual.vehicle_cards :
          LET veh_card == manual.vehicle_cards[k]
              was_selected == /\ manual.selected_vehicle # None
                              /\ manual.selected_vehicle[1].vehicle.id = veh_card.vehicle.id
          IN /\ manual' = [manual EXCEPT !.selected_vehicle =
                                             IF was_selected THEN None ELSE <<veh_card>>]
             /\ result' = Answer("handle_event", "vehicle_selected")
    /\ UNCHANGED ManualFrame

\* handle_event, a click on a package card: the card's selected flag is toggled
ClickPackageCard ==
    /\ agent = "Manual"
    /\ \E k \in DOMAIN manual.all_packages :
          /\ manual' = [manual EXCEPT !.selected_package =
                                          IF @ = <<manual.all_packages[k]>> THEN None
                                          ELSE <<manual.all_packages[k]>>]
          /\ result' = Answer("handle_event", "package_selected")
    /\ UNCHANGED ManualFrame

\* handle_event, a click on a package of the mini-map
ClickMapPackage ==
    /\ agent = "Manual"
    /\ \E k \in DOMAIN manual.all_packages :
          LET pkg == manual.all_packages[k]
              elsewhere == /\ manual.selected_vehicle # None
                           /\ \E a \in DOMAIN manual.assignments :
                                 /\ manual.assignments[a][1] = pkg.id
                                 /\ manual.assignments[a][2] #
                                        manual.selected_vehicle[1].vehicle.id
              selected == [manual EXCEPT !.selected_package = <<pkg>>]
          IN IF manual.selected_vehicle = None \/ elsewhere
             THEN /\ manual' = selected
                  /\ result' = Answer("handle_event", "package_selected")
             ELSE \E out \in {assign_package_from_map(manual, pkg)} :
                     IF out.ret
                     THEN /\ manual' = out.self
                          /\ result' = Answer("handle_event", "package_assigned")
                     ELSE IF IsAssigned(manual, pkg.id)
                          THEN /\ manual' = selected
                               /\ result' = Answer("handle_event", "package_selected")
                          ELSE /\ manual' = out.self
                               /\ result' = Answer("handle_event", "capacity_exceeded")
    /\ UNCHANGED ManualFrame

AssignSelected ==
    /\ agent = "Manual"
    /\ \E out \in {assign_selected(manual)} :
          /\ manual' = out.self
          /\ result' = Answer("assign_selected", out.ret)
    /\ UNCHANGED ManualFrame

ClearAssignments ==
    /\ agent = "Manual"
    /\ \E out \in {clear_assignments(manual)} :
          /\ manual' = out.self
          /\ result' = Answer("handle_event", "assignments_cleared")
    /\ UNCHANGED ManualFrame

PrevVehiclePage ==
    /\ agent = "Manual"
    /\ manual.vehicle_page > 0
    /\ manual' = _build_vehicle_page([manual EXCEPT !.vehicle_page = @ - 1])
    /\ result' = Answer("handle_event", "none")
    /\ UNCHANGED ManualFrame

NextVehiclePage ==
    /\ agent = "Manual"
    /\ manual.vehicle_page <
          ((Len(manual.all_vehicles) + vehicles_per_page - 1) \div vehicles_per_page) - 1
    /\ manual' = _build_vehicle_page([manual EXCEPT !.vehicle_page = @ + 1])
    /\ result' = Answer("handle_event", "none")
    /\ UNCHANGED ManualFrame

\* handle_event, the Plan Routes button: get_manual_routes
GetManualRoutes ==
    /\ agent = "Manual"
    /\ result' = [status |-> "returned", routes |-> get_manual_routes(manual),
                  op |-> "get_manual_routes", value |-> "plan_routes"]
    /\ UNCHANGED <<manual, ManualFrame>>

NextManual ==
    \/ ClickVehicleCard
    \/ ClickPackageCard
    \/ ClickMapPackage
    \/ AssignSelected
    \/ ClearAssignments
    \/ PrevVehiclePage
    \/ NextVehiclePage
    \/ GetManualRoutes
    \/ RAgentPlanRoutes
    \/ NeuralPlanRoutes

SpecManual == InitManual /\ [][NextManual]_vars

(* the game state over some days: vehicles bought, marketing upgraded,     *)
(* packages loaded, routes planned over the pending packages and executed  *)
\* the payments are multiples of 5; package 13 is a rush order
GamePackages ==
    {Package(11, <<3, 0>>, 1, 10),
     Package(12, <<0, 4>>, 2, 15),
     [id |-> 13, destination |-> <<-3, 0>>, volume_m3 |-> 3, payment |-> 5, is_rush |-> TRUE]}

GamePackageLists == DistinctSeqs(GamePackages, MaxPending) \ {<<>>}

GameVehicleTypes ==
    {VehicleType(<<"S", "m", "a", "l", "l", " ", "V", "a", "n">>, 2, 1, 15000, 40),
     VehicleType(<<"M", "e", "d", "i", "u", "m", " ", "T", "r", "u", "c", "k">>,
                 4, 2, 25000, 40)}

\* GameState.__init__: initial_balance: float = 100000.0
default_initial_balance == 100000

InitialBalances == {20000, 200000}

\* the popularity of a new game and of games in progress: near the floor,
\* below the Peak threshold and near the ceiling
StartPopularities == {5, 300, 470, 998}

\* the fleets a game starts its days with
StartFleets == {<<vt>> : vt \in GameVehicleTypes} \cup {<<vt, vt>> : vt \in GameVehicleTypes}

RECURSIVE Purchased(_, _)
\* the state after the vehicles of the given types are bought one by one
Purchased(self, types) ==
    IF types = <<>> THEN self
    ELSE Purchased(purchase_vehicle(self, Head(types), Len(self.fleet) + 1).self, Tail(types))

\* a new game, or a game in progress, before any vehicle is bought
NewGame(initial_balance, popularity) ==
    IF popularity = GameState(initial_balance, 1).popularity_score
    THEN GameState(initial_balance, 1)
    ELSE compute_difficulty_snapshot([GameState(initial_balance, 1) EXCEPT
                                        !.popularity_score = popularity,
                                        !.popularity_history = <<popularity>>])

NoCalls(kind) ==
    /\ agent = kind
    /\ packages = <<>>
    /\ fleet = <<>>
    /\ _boxes = RAgentInit._boxes
    /\ _vehicles = RAgentInit._vehicles
    /\ _assigned_boxes = RAgentInit._assigned_boxes
    /\ _assigned_vehicles = RAgentInit._assigned_vehicles
    /\ _routes = RAgentInit._routes
    /\ result = NoResult
    /\ printed = 0
    /\ router_out = NoRouterCall
    /\ manual = NoManual

\* the shop: vehicles and marketing bought from the balance
InitShop ==
    /\ NoCalls("GameState")
    /\ env = NoEnv
    /\ app = NoApp
    /\ \E initial_balance \in InitialBalances, popularity \in StartPopularities :
          game = NewGame(initial_balance, popularity)

\* the days of a game of the default balance that has bought its fleet
InitGame ==
    /\ NoCalls("GameState")
    /\ env = NoEnv
    /\ app = NoApp
    /\ \E popularity \in StartPopularities, types \in StartFleets :
          game = Purchased(NewGame(default_initial_balance, popularity), types)

GameFrame == <<app, env, manual, agent, packages, fleet, fields, printed, router_out>>

\* main_pygame purchase_vehicle: the id is made from the size of the fleet
PurchaseVehicle ==
    /\ agent = "GameState"
    /\ Len(game.fleet) < MaxFleet
    /\ \E vehicle_type \in GameVehicleTypes :
         \E out \in {purchase_vehicle(game, vehicle_type, Len(game.fleet) + 1)} :
            /\ game' = out.self
            /\ result' = Answer("purchase_vehicle", out.ret)
    /\ UNCHANGED GameFrame

UpgradeMarketing ==
    /\ agent = "GameState"
    /\ \E out \in {upgrade_marketing(game)} :
          /\ game' = out.self
          /\ result' = Answer("upgrade_marketing", out.ret)
    /\ UNCHANGED GameFrame

\* the batch of the day arrives: packages with new ids
LoadPackages ==
    /\ agent = "GameState"
    /\ \E pkgs \in GamePackageLists :
          /\ game.packages_pending = <<>>
          /\ \A i \in DOMAIN pkgs :
                /\ \A k \in DOMAIN game.packages_pending :
                      game.packages_pending[k].id # pkgs[i].id
                /\ \A k \in DOMAIN game.packages_delivered :
                      game.packages_delivered[k].id # pkgs[i].id
          /\ game' = load_packages(game, pkgs)
    /\ result' = Answer("load_packages", "None")
    /\ UNCHANGED GameFrame

\* the plan of RAgent over the pending packages and the fleet, or no plan
SetRoutes ==
    /\ agent = "GameState"
    /\ \E routes \in {<<>>, Returned(RAgent_plan_routes(RAgentInit, game.packages_pending,
                                                        game.fleet)).routes} :
          /\ routes # game.current_routes
          /\ game' = set_routes(game, routes)
    /\ result' = Answer("set_routes", "None")
    /\ UNCHANGED GameFrame

ExecuteRoutes ==
    /\ agent = "GameState"
    /\ Len(game.history) < MaxHistory
    /\ \E out \in {execute_routes(game, "RAgent")} :
          /\ game' = out.self
          /\ result' = Answer("execute_routes", out.ret)
    /\ UNCHANGED GameFrame

AdvanceDay ==
    /\ agent = "GameState"
    /\ game.current_day < MaxDay
    /\ game' = advance_day(game)
    /\ result' = Answer("advance_day", "None")
    /\ UNCHANGED GameFrame

NextShop ==
    \/ PurchaseVehicle
    \/ UpgradeMarketing

SpecShop == InitShop /\ [][NextShop]_vars

NextGame ==
    \/ UpgradeMarketing
    \/ LoadPackages
    \/ SetRoutes
    \/ ExecuteRoutes
    \/ AdvanceDay

SpecGame == InitGame /\ [][NextGame]_vars

(* saving and loading: a game in progress is written with save_game_state  *)
(* and the file is read back with load_game_state                          *)

\* the keys of vehicles.json as load_vehicle_types reads them
small_van == <<"s", "m", "a", "l", "l", "_", "v", "a", "n">>

medium_truck == <<"m", "e", "d", "i", "u", "m", "_", "t", "r", "u", "c", "k">>

\* DataLoader.load_vehicle_types: the table of the game's vehicle types
load_vehicle_types ==
    [type_key \in {small_van, medium_truck} |->
        CHOOSE vt \in GameVehicleTypes :
            vt.capacity_m3 = IF type_key = small_van THEN 2 ELSE 4]

\* save_game_state(game_state): the file is written, the game is as it was
SaveGameState ==
    /\ agent = "GameState"
    /\ IF result.status = "none" THEN TRUE ELSE result.op # "save_game_state"
    /\ result' = Answer("save_game_state", save_game_state(game))
    /\ UNCHANGED <<game, GameFrame>>

\* load_game_state(filename, vehicle_types) on the file just written
LoadGameState ==
    /\ agent = "GameState"
    /\ result.status = "returned"
    /\ result.op = "save_game_state"
    /\ result' = Answer("load_game_state", load_game_state(result.value, load_vehicle_types))
    /\ UNCHANGED <<game, GameFrame>>

NextSave ==
    \/ UpgradeMarketing
    \/ LoadPackages
    \/ SetRoutes
    \/ ExecuteRoutes
    \/ AdvanceDay
    \/ SaveGameState
    \/ LoadGameState

SpecSave == InitGame /\ [][NextSave]_vars

(* the window: the player's clicks and keys, and process_autoplay on every *)
(* frame of the main loop                                                  *)

\* the frame times of the main loop, in tenths of a second
Dts == {3, 5}

\* the modal that handle_events gives an event to
Top(visible) ==
    CASE "day_summary" \in visible -> "day_summary"
      [] "vehicle" \in visible -> "vehicle"
      [] "capacity_warning" \in visible -> "capacity_warning"
      [] "marketing" \in visible -> "marketing"
      [] "comparison" \in visible -> "comparison"
      [] OTHER -> "none"

\* __init__: new_game, then start_day_flow
InitApp ==
    /\ NoCalls("DeliveryFleetApp")
    /\ game = NoGame
    /\ env = NoEnv
    /\ \E pending, fits, routes_found \in BOOLEAN :
          app = start_day_flow(DeliveryFleetApp, pending, fits, routes_found)

AppFrame == <<agent, packages, fleet, fields, result, printed, router_out, manual, game, env>>

\* the Auto Play button
ToggleAutoplay ==
    /\ app.running /\ app.visible = {}
    /\ app' = toggle_autoplay(app)
    /\ UNCHANGED AppFrame

\* the 1x, 2x and 3x buttons
SetAutoplaySpeed ==
    /\ app.running /\ app.visible = {}
    /\ \E speed \in 1..3 :
          /\ speed # app.autoplay_speed
          /\ app' = set_autoplay_speed(app, speed)
    /\ UNCHANGED AppFrame

\* the Marketing button: on_show_marketing
OnShowMarketing ==
    /\ app.running /\ app.visible = {}
    /\ app' = show(app, "marketing")
    /\ UNCHANGED AppFrame

\* Close in the marketing modal, or an upgrade that succeeds
CloseMarketing ==
    /\ app.running /\ Top(app.visible) = "marketing"
    /\ app' = hide(app, "marketing")
    /\ UNCHANGED AppFrame

\* the Buy Vehicle button: on_buy_vehicle
OnBuyVehicle ==
    /\ app.running /\ app.visible = {}
    /\ app' = show(app, "vehicle")
    /\ UNCHANGED AppFrame

\* _cancel_vehicle_purchase
CancelVehiclePurchase ==
    /\ app.running /\ Top(app.visible) = "vehicle"
    /\ \E routes_found \in BOOLEAN :
          app' = _maybe_execute_deferred_auto_plan(hide(app, "vehicle"), routes_found)
    /\ UNCHANGED AppFrame

\* purchase_vehicle with the funds for it
VehiclePurchased ==
    /\ app.running /\ Top(app.visible) = "vehicle"
    /\ \E routes_found \in BOOLEAN :
          app' = IF app.mode = "AUTO" THEN auto_plan_routes(hide(app, "vehicle"), routes_found)
                 ELSE hide(app, "vehicle")
    /\ UNCHANGED AppFrame

\* close_day_summary_and_buy
CloseDaySummaryAndBuy ==
    /\ app.running /\ Top(app.visible) = "day_summary"
    /\ app.day_summary_buttons = "summary"
    /\ app' = show(hide(app, "day_summary"), "vehicle")
    /\ UNCHANGED AppFrame

\* Continue in the day summary: close_day_summary_with_warning under
\* autoplay, close_day_summary_manual without it
CloseDaySummaryContinue ==
    /\ app.running /\ Top(app.visible) = "day_summary"
    /\ app.day_summary_buttons = "summary"
    /\ \E routes_found \in BOOLEAN :
          app' = IF app.autoplay_enabled
                 THEN show(hide(app, "day_summary"), "capacity_warning")
                 ELSE _maybe_execute_deferred_auto_plan(hide(app, "day_summary"),
                                                        routes_found)
    /\ UNCHANGED AppFrame

\* _handle_day_preview_continue
DayPreviewContinue ==
    /\ app.running /\ Top(app.visible) = "day_summary"
    /\ app.day_summary_buttons = "preview"
    /\ \E routes_found \in BOOLEAN :
          app' = _maybe_execute_deferred_auto_plan(hide(app, "day_summary"), routes_found)
    /\ UNCHANGED AppFrame

\* close_modal_and_buy
CloseModalAndBuy ==
    /\ app.running /\ Top(app.visible) = "capacity_warning"
    /\ app' = show(hide(app, "capacity_warning"), "vehicle")
    /\ UNCHANGED AppFrame

\* close_modal_and_continue
CloseModalAndContinue ==
    /\ app.running /\ Top(app.visible) = "capacity_warning"
    /\ \E routes_found \in BOOLEAN :
          app' = _maybe_execute_deferred_auto_plan(hide(app, "capacity_warning"),
                                                   routes_found)
    /\ UNCHANGED AppFrame

\* handle_events, K_ESCAPE with a modal visible: the first of its chain
Escape ==
    /\ app.running /\ app.visible # {}
    /\ \E routes_found \in BOOLEAN :
          app' = CASE "vehicle" \in app.visible ->
                        _maybe_execute_deferred_auto_plan(hide(app, "vehicle"), routes_found)
                   [] "capacity_warning" \in app.visible ->
                        _maybe_execute_deferred_auto_plan(hide(app, "capacity_warning"),
                                                          routes_found)
                   [] "marketing" \in app.visible -> hide(app, "marketing")
                   [] "day_summary" \in app.visible ->
                        _maybe_execute_deferred_auto_plan(hide(app, "day_summary"),
                                                          routes_found)
                   [] OTHER -> hide(app, "comparison")
    /\ UNCHANGED AppFrame

\* the Execute button
OnExecuteDay ==
    /\ app.running /\ app.visible = {}
    /\ app.execute_enabled
    /\ \E routes_found, left \in BOOLEAN : app' = on_execute_day(app, routes_found, left)
    /\ UNCHANGED AppFrame

\* the Next button
OnNextDay ==
    /\ app.running /\ app.visible = {}
    /\ app.next_day_enabled
    /\ \E pending, fits, routes_found \in BOOLEAN :
          app' = on_next_day(app, pending, fits, routes_found)
    /\ UNCHANGED AppFrame

\* update(dt) of the main loop
ProcessAutoplay ==
    /\ app.running
    /\ \E dt \in Dts, pending, fits, routes_found, left, same_count \in BOOLEAN :
          app' = process_autoplay(app, dt, pending, fits, routes_found, left, same_count)
    /\ UNCHANGED AppFrame

NextApp ==
    \/ ToggleAutoplay
    \/ SetAutoplaySpeed
    \/ OnShowMarketing
    \/ CloseMarketing
    \/ OnBuyVehicle
    \/ CancelVehiclePurchase
    \/ VehiclePurchased
    \/ CloseDaySummaryAndBuy
    \/ CloseDaySummaryContinue
    \/ DayPreviewContinue
    \/ CloseModalAndBuy
    \/ CloseModalAndContinue
    \/ Escape
    \/ OnExecuteDay
    \/ OnNextDay
    \/ ProcessAutoplay

SpecApp == InitApp /\ [][NextApp]_vars

(* the training of NeuralRAgent._train_and_plan on the selection of a       *)
(* vehicle: episodes that sample their actions, then the greedy rollout    *)

\* what _select_packages_for_vehicle gives the vehicles for the package lists
Selections ==
    {_select_packages_for_vehicle(vehicle, candidates) :
        vehicle \in VehicleCatalogue, candidates \in PackageLists(MaxPkgs)} \ {<<>>}

InitTrain ==
    /\ NoCalls("NeuralRAgent")
    /\ game = NoGame
    /\ \E selection \in Selections : env = DeliveryEnv(selection)
    /\ app = NoApp

TrainFrame == <<app, manual, game, agent, packages, fleet, fields, result, printed, router_out>>

\* _run_episode: one turn of its loop, the action sampled
RunEpisodeStep ==
    /\ env.phase = "episode"
    /\ env.remaining # <<>>
    /\ \E exp_z2 \in ExpRows(max_actions(env)) :
          \E action \in random_choice(Len(env.remaining),
                                      forward(exp_z2, Len(env.remaining))) :
              env' = IF action = 0
                     THEN [env EXCEPT !.phase = "ValueError", !.action = 0,
                                      !.valid_actions = Len(env.remaining)]
                     ELSE LoopStep(env, action, Len(env.remaining))
    /\ UNCHANGED TrainFrame

\* _train_and_plan: the next episode of the training loop
NextEpisode ==
    /\ env.phase = "episode"
    /\ env.remaining = <<>>
    /\ env.episode < MaxEpisodes
    /\ env' = reset(env, "episode", env.episode + 1)
    /\ UNCHANGED TrainFrame

\* _train_and_plan: the training loop is over, _rollout_policy resets the env
StartRollout ==
    /\ env.phase = "episode"
    /\ env.remaining = <<>>
    /\ env.episode = MaxEpisodes
    /\ env' = reset(env, "rollout", env.episode)
    /\ UNCHANGED TrainFrame

\* _rollout_policy: one turn of its loop, the action the argmax
RolloutStep ==
    /\ env.phase = "rollout"
    /\ env.remaining # <<>>
    /\ \E exp_z2 \in ExpRows(max_actions(env)) :
          env' = LoopStep(env, argmax(forward(exp_z2, Len(env.remaining)),
                                      Len(env.remaining)),
                          Len(env.remaining))
    /\ UNCHANGED TrainFrame

NextTrain ==
    \/ RunEpisodeStep
    \/ NextEpisode
    \/ StartRollout
    \/ RolloutStep

SpecTrain == InitTrain /\ [][NextTrain]_vars

(* the end of a game: is_game_over asked of games late in their month      *)

\* a record of a day that closed with the profit
DayOfProfit(day, profit) ==
    [day |-> day, packages_delivered |-> 1, packages_attempted |-> 1,
     revenue |-> IF profit > 0 THEN profit ELSE 0,
     costs |-> IF profit > 0 THEN 0 ELSE 0 - profit,
     profit |-> profit, agent_used |-> "RAgent", routes_count |-> 1,
     total_distance |-> 6, balance_end |-> 0, popularity_start |-> 300,
     popularity_end |-> 300, popularity_delta |-> 0, demand_tier |-> "Busy",
     penalties |-> 0]

DayProfits == {0 - 1, 0, 1}

\* the profits of the days on record, oldest first
ProfitHistories == UNION {[1..n -> DayProfits] : n \in 0..MaxOverHistory}

OverBalances == {0 - 1, 0, 200000, 200001}

OverDays == {29, 30}

InitOver ==
    /\ NoCalls("GameState")
    /\ env = NoEnv
    /\ app = NoApp
    /\ \E balance \in OverBalances, day \in OverDays, profits \in ProfitHistories :
          game = [GameState(balance, day) EXCEPT
                    !.history = [h \in DOMAIN profits |-> DayOfProfit(h, profits[h])]]

IsGameOver ==
    /\ agent = "GameState"
    /\ result' = Answer("is_game_over", is_game_over(game))
    /\ UNCHANGED <<game, GameFrame>>

NextDayLate ==
    /\ agent = "GameState"
    /\ game.current_day < LastDay
    /\ game' = advance_day(game)
    /\ result' = Answer("advance_day", "None")
    /\ UNCHANGED GameFrame

NextOver ==
    \/ IsGameOver
    \/ NextDayLate

SpecOver == InitOver /\ [][NextOver]_vars

(* ------------------------------- claims ------------------------------- *)
Planners == {"RAgent", "NeuralRAgent"}

HasReturned == result.status = "returned"

Ids(pkgs) == {pkgs[i].id : i \in DOMAIN pkgs}

Count(s, x) == Cardinality({i \in DOMAIN s : s[i] = x})

\* out holds exactly the elements of in, each as often
IsPermutation(out, in) ==
    /\ Len(out) = Len(in)
    /\ \A i \in DOMAIN in : Count(out, in[i]) = Count(in, in[i])

\* each point of tour is a nearest one, among those from it on, to the point
\* before it, the first to the depot
IsNearestNeighbourOrder(tour) ==
    \A i \in DOMAIN tour : \A j \in i..Len(tour) :
        LET prev == IF i = 1 THEN depot ELSE tour[i - 1]
        IN calc_distance(prev, tour[i]) <= calc_distance(prev, tour[j])

\* the input packages that are on no returned route
LeftOut == {p \in Range(packages) : \A r \in DOMAIN result.routes : p \notin Range(result.routes[r].packages)}

\* the unassigned set the result of the call carries
ReportedUnassigned == IF "unassigned" \in DOMAIN result THEN result.unassigned ELSE {}

\* C1: in the routes RAgent and NeuralRAgent return, every package is one of
\* the input packages and no package id is on two different routes
C1_OnlyInputPackagesOncePerPlan ==
    (agent \in Planners /\ HasReturned) =>
        /\ \A r \in DOMAIN result.routes : Range(result.routes[r].packages) \subseteq Range(packages)
        /\ \A r1, r2 \in DOMAIN result.routes :
              r1 # r2 => Ids(result.routes[r1].packages) \cap Ids(result.routes[r2].packages) = {}

C1_Witness ==
    /\ agent = "RAgent"
    /\ HasReturned
    /\ Len(result.routes) = 2
    /\ Len(packages) = 3
    /\ LeftOut = {}

\* C2: the packages of every route RAgent and NeuralRAgent return have a total
\* volume of at most the capacity of the route's vehicle
C2_RouteVolumeWithinCapacity ==
    (agent \in Planners /\ HasReturned) =>
        \A r \in DOMAIN result.routes :
            TotalVolume(result.routes[r].packages) <= result.routes[r].vehicle.capacity_m3

\* C3: with an empty package list or an empty fleet, plan_routes of every
\* agent returns the empty route list and raises nothing
C3_EmptyInputEmptyPlan ==
    (result.status # "none" /\ (packages = <<>> \/ fleet = <<>>)) =>
        (result.status = "returned" /\ result.routes = <<>>)

\* C4: a plan_routes call of RAgent or NeuralRAgent leaves the caller's package
\* list and fleet list as they were
C4_InputsUnchanged ==
    [][(agent \in Planners) => (packages' = packages /\ fleet' = fleet)]_vars

C4_Witness ==
    /\ agent = "RAgent"
    /\ HasReturned
    /\ Len(fleet) = 2
    /\ _vehicles # fleet
    /\ _boxes # packages

\* C5: whatever calls came before, RAgent.plan_routes returns what a fresh
\* instance returns for the same arguments
C5_ResultDependsOnArgumentsOnly ==
    (agent = "RAgent" /\ result.status # "none") =>
        /\ HasReturned
        /\ result.routes = RAgent_plan_routes(RAgentInit, packages, fleet).routes

\* a call that returned while the fields still held the routes of an earlier
\* call with other arguments
C5_Witness ==
    /\ agent = "RAgent"
    /\ HasReturned
    /\ packages # <<>>
    /\ result.routes = <<>>
    /\ _routes # <<>>
    /\ Range(_boxes) \cap Range(packages) = {}

\* C6: the total distance of every route RAgent and NeuralRAgent return is at
\* most the max_range_km of the route's vehicle
C6_RouteWithinRange ==
    (agent \in Planners /\ HasReturned) =>
        \A r \in DOMAIN result.routes :
            RouteDistance(result.routes[r].stops) <= result.routes[r].vehicle.max_range_km

\* C7: when packages are left out of the plan, the result of the call carries
\* them as a non-empty unassigned set
C7_LeftOutReported ==
    (agent \in Planners /\ HasReturned /\ packages # <<>> /\ fleet # <<>> /\ LeftOut # {}) =>
        ReportedUnassigned # {}

\* C8: nearest_neighbor_tsp and greedy_cluster return a permutation of their
\* input in which every point is a nearest one to the point before it
C8_NearestNeighbourPermutation ==
    /\ router_out.op = "nearest_neighbor_tsp" =>
          /\ IsPermutation(router_out.tour, router_out.points)
          /\ IsNearestNeighbourOrder(router_out.tour)
    /\ router_out.op = "greedy_cluster" =>
          /\ IsPermutation(router_out.route.packages, router_out.cluster)
          /\ IsNearestNeighbourOrder(Destinations(router_out.route.packages))

C8_Witness ==
    /\ router_out.op = "greedy_cluster"
    /\ Len(router_out.cluster) = 4
    /\ router_out.route.packages # router_out.cluster
    /\ Cardinality(Range(Destinations(router_out.cluster))) = 4

\* C9: two_opt_improvement returns a tour over the points of its input that is
\* not longer than its input, the legs from and to the depot included
C9_TwoOptNotLonger ==
    router_out.op = "two_opt_improvement" =>
        /\ IsPermutation(router_out.tour, router_out.points)
        /\ calculate_route_distance(router_out.tour) <= calculate_route_distance(router_out.points)

C9_Witness ==
    /\ router_out.op = "two_opt_improvement"
    /\ Len(router_out.points) = 4
    /\ calculate_route_distance(router_out.tour) < calculate_route_distance(router_out.points)

\* the number of vehicles of the fleet whose cost_per_km / capacity_m3 is below
\* that of v, and the number of those where it is not above
CheaperThan(v) == Cardinality({i \in DOMAIN fleet : KeyLess(Ratio(fleet[i]), Ratio(v))})

NotDearerThan(v) == Cardinality({i \in DOMAIN fleet : ~KeyLess(Ratio(v), Ratio(fleet[i]))})

\* C10: the k-th route RAgent.plan_routes builds is for the vehicle with the
\* k-th smallest cost_per_km / capacity_m3
C10_CheapestVehiclesFirst ==
    (agent = "RAgent" /\ HasReturned) =>
        \A k \in DOMAIN result.routes :
            /\ CheaperThan(result.routes[k].vehicle) < k
            /\ k <= NotDearerThan(result.routes[k].vehicle)

\* C12: every element of the stop list of a route RAgent.plan_routes returns is
\* the destination of a package on that route; the depot is not among the stops
C12_StopsArePackageDestinations ==
    (agent = "RAgent" /\ HasReturned) =>
        \A r \in DOMAIN result.routes :
            \A s \in DOMAIN result.routes[r].stops :
                /\ result.routes[r].stops[s] # depot
                /\ \E k \in DOMAIN result.routes[r].packages :
                      result.routes[r].packages[k].destination = result.routes[r].stops[s]

\* the volume the assignments map gives the vehicle
AssignedVolume(self, veh_id) ==
    SumSeq([a \in DOMAIN self.assignments |->
              IF self.assignments[a][2] = veh_id
              THEN FindPackage(self.all_packages, self.assignments[a][1])[1].volume_m3
              ELSE 0])

\* package would take the vehicle of card over its capacity
Overfills(self, card, package) ==
    AssignedVolume(self, card.vehicle.id) + package.volume_m3 > card.vehicle.capacity_m3

\* C11: a package that would take a vehicle over its capacity is rejected where
\* it is assigned: add_package, assign_selected and assign_package_from_map
\* return False and leave the assignments, the card's packages and its stops
C11_OverCapacityRejected ==
    (agent = "Manual") =>
        \A k \in DOMAIN manual.all_packages :
            LET pkg == manual.all_packages[k]
            IN /\ \A c \in DOMAIN manual.vehicle_cards :
                     Overfills(manual, manual.vehicle_cards[c], pkg) =>
                         add_package(manual.vehicle_cards[c], pkg) =
                             [card |-> manual.vehicle_cards[c], ret |-> FALSE]
               /\ (manual.selected_vehicle # None
                   /\ Overfills(manual, manual.selected_vehicle[1], pkg)) =>
                      /\ add_package(manual.selected_vehicle[1], pkg) =
                             [card |-> manual.selected_vehicle[1], ret |-> FALSE]
                      /\ assign_package_from_map(manual, pkg) = [self |-> manual, ret |-> FALSE]
                      /\ (manual.selected_package = <<pkg>>) =>
                             assign_selected(manual) = [self |-> manual, ret |-> FALSE]

\* assign_selected has just refused a package that is assigned nowhere, for a
\* vehicle that already carries something
C11_Witness ==
    /\ agent = "Manual"
    /\ result.status = "returned"
    /\ result.op = "assign_selected"
    /\ result.value = FALSE
    /\ manual.selected_vehicle # None
    /\ manual.selected_package # None
    /\ ~IsAssigned(manual, manual.selected_package[1].id)
    /\ AssignedVolume(manual, manual.selected_vehicle[1].vehicle.id) > 0
    /\ Overfills(manual, manual.selected_vehicle[1], manual.selected_package[1])

\* C20: every route RAgent.plan_routes, NeuralRAgent.plan_routes and
\* ManualModeManager.get_manual_routes return carries at least one package
C20_NoEmptyRoute ==
    (agent \in PlanModes /\ HasReturned) =>
        \A r \in DOMAIN result.routes : result.routes[r].packages # <<>>

\* get_manual_routes has returned routes while a vehicle has nothing assigned
C20_Witness ==
    /\ agent = "Manual"
    /\ HasReturned
    /\ result.op = "get_manual_routes"
    /\ result.routes # <<>>
    /\ Len(result.routes) < Len(manual.all_vehicles)
    /\ \A r \in DOMAIN result.routes : result.routes[r].packages # <<>>

\* C13: purchase_vehicle returns True exactly when the balance covers the
\* price; then the balance falls by the price and one vehicle with the given id
\* and purchase_day = current_day is appended; else balance and fleet stay
C13_PurchaseVehicle ==
    (agent = "GameState") =>
        \A vehicle_type \in GameVehicleTypes, vehicle_id \in 1..(MaxFleet + 1) :
            LET out == purchase_vehicle(game, vehicle_type, vehicle_id)
            IN /\ out.ret \in BOOLEAN
               /\ out.ret <=> (game.balance >= vehicle_type.purchase_price)
               /\ out.ret =>
                     /\ out.self.balance = game.balance - vehicle_type.purchase_price
                     /\ Len(out.self.fleet) = Len(game.fleet) + 1
                     /\ SubSeq(out.self.fleet, 1, Len(game.fleet)) = game.fleet
                     /\ Last(out.self.fleet).id = vehicle_id
                     /\ Last(out.self.fleet).purchase_day = game.current_day
               /\ ~out.ret =>
                     /\ out.self.balance = game.balance
                     /\ out.self.fleet = game.fleet

\* a purchase has been refused after an earlier one went through
C13_Witness ==
    /\ agent = "GameState"
    /\ result.status = "returned"
    /\ result.op = "purchase_vehicle"
    /\ result.value = FALSE
    /\ Len(game.fleet) = 1
    /\ game.fleet[1].purchase_day = game.current_day
    /\ \E vehicle_type \in GameVehicleTypes : game.balance < vehicle_type.purchase_price

\* the price of the step from each marketing level to the next
UpgradeCost == <<20000, 35000, 55000, 80000>>

\* C14: upgrade_marketing returns True exactly when the level is below 5 and the
\* balance covers the cost of the level; then the level rises by one and the
\* balance falls by the cost; else neither changes; the level stays in 1..5
C14_UpgradeMarketing ==
    (agent = "GameState") =>
        LET out == upgrade_marketing(game)
            level == game.marketing_level
        IN /\ level \in 1..5
           /\ out.ret \in BOOLEAN
           /\ out.ret <=> (level < 5 /\ game.balance >= UpgradeCost[level])
           /\ out.ret =>
                 /\ out.self.marketing_level = level + 1
                 /\ out.self.balance = game.balance - UpgradeCost[level]
           /\ ~out.ret =>
                 /\ out.self.marketing_level = level
                 /\ out.self.balance = game.balance

\* the upgrade has been refused at level 5
C14_Witness ==
    /\ agent = "GameState"
    /\ result.status = "returned"
    /\ result.op = "upgrade_marketing"
    /\ result.value = FALSE
    /\ game.marketing_level = 5

\* the ids of the packages on the routes
OnRoutes(routes) ==
    UNION {{routes[r].packages[k].id : k \in DOMAIN routes[r].packages} : r \in DOMAIN routes}

\* the pending packages that are on none of the routes
Missed(pending, routes) == SelectSeq(pending, LAMBDA pkg : pkg.id \notin OnRoutes(routes))

\* C15: execute_routes with routes returns the sum of the route revenues less
\* the sum of the route costs less the penalty, 0.4 of the payments of the
\* pending packages on no route; the balance rises by what is returned; one
\* record is appended with that profit, equal to its revenue less its costs,
\* with the penalty in penalties and the new balance in balance_end
C15_ProfitBalanceRecord ==
    (agent = "GameState" /\ game.current_routes # <<>>) =>
        LET out == execute_routes(game, "RAgent")
            routes == game.current_routes
            revenues == SumSeq([r \in DOMAIN routes |-> total_revenue(routes[r])])
            costs == SumSeq([r \in DOMAIN routes |-> total_cost(routes[r])])
            missed == Missed(game.packages_pending, routes)
            penalty == (2 * SumSeq([i \in DOMAIN missed |-> missed[i].payment])) \div 5
            record == Last(out.self.history)
        IN /\ out.ret = revenues - costs - penalty
           /\ out.self.balance = game.balance + out.ret
           /\ out.self.history = Append(game.history, record)
           /\ record.profit = out.ret
           /\ record.profit = record.revenue - record.costs
           /\ record.penalties = penalty
           /\ record.balance_end = out.self.balance

\* a day has been executed with a penalty for a package left pending
C15_Witness ==
    /\ agent = "GameState"
    /\ result.status = "returned"
    /\ result.op = "execute_routes"
    /\ game.history # <<>>
    /\ Last(game.history).penalties > 0
    /\ Last(game.history).profit = result.value
    /\ game.packages_pending # <<>>

\* C16: after execute_routes with routes, packages_pending holds the packages
\* that were pending and are on no route, in their order, and every package of
\* the routes has been appended to packages_delivered
C16_PendingAndDelivered ==
    (agent = "GameState" /\ game.current_routes # <<>>) =>
        LET out == execute_routes(game, "RAgent")
        IN /\ out.self.packages_pending = Missed(game.packages_pending, game.current_routes)
           /\ out.self.packages_delivered =
                  game.packages_delivered \o Extend(<<>>, game.current_routes)

\* a day has been executed that delivered one package and left another pending
C16_Witness ==
    /\ agent = "GameState"
    /\ result.status = "returned"
    /\ result.op = "execute_routes"
    /\ game.history # <<>>
    /\ Last(game.history).day = game.current_day
    /\ Len(game.packages_pending) = 1
    /\ Len(game.packages_delivered) = 1
    /\ game.packages_pending[1].id # game.packages_delivered[1].id

\* C17: every DayHistory record has packages_delivered at most
\* packages_attempted, and a delivery_rate of at most 100
C17_DeliveredAtMostAttempted ==
    (agent = "GameState") =>
        \A h \in DOMAIN game.history :
            /\ game.history[h].packages_delivered <= game.history[h].packages_attempted
            /\ delivery_rate(game.history[h])[1] <= 100 * delivery_rate(game.history[h])[2]

\* C18: in the record execute_routes appends, popularity_end is the new
\* popularity_score and is popularity_start plus popularity_delta clamped to
\* [0, 1000]; demand_tier is the new current_demand_tier, the tier
\* determine_demand_tier gives the new popularity and the marketing level
C18_RecordPopularityAndTier ==
    (agent = "GameState" /\ game.current_routes # <<>>) =>
        LET out == execute_routes(game, "RAgent")
            record == Last(out.self.history)
            sum == record.popularity_start + record.popularity_delta
        IN /\ record.popularity_end = out.self.popularity_score
           /\ record.popularity_end = IF sum < 0 THEN 0 ELSE IF sum > 1000 THEN 1000 ELSE sum
           /\ record.demand_tier = out.self.current_demand_tier
           /\ out.self.current_demand_tier =
                  IF out.self.popularity_score + (out.self.marketing_level - 1) * 40 < 220
                  THEN "Calm"
                  ELSE IF out.self.popularity_score + (out.self.marketing_level - 1) * 40 < 480
                  THEN "Busy"
                  ELSE IF out.self.popularity_score + (out.self.marketing_level - 1) * 40 < 720
                  THEN "Peak"
                  ELSE "Frenzy"

\* a day has been executed whose popularity change was cut off at a bound
C18_Witness ==
    /\ agent = "GameState"
    /\ result.status = "returned"
    /\ result.op = "execute_routes"
    /\ game.history # <<>>
    /\ Last(game.history).popularity_end = game.popularity_score
    /\ Last(game.history).popularity_delta # 0
    /\ Last(game.history).popularity_end #
           Last(game.history).popularity_start + Last(game.history).popularity_delta

\* C19: advance_day adds one to current_day, empties current_routes,
\* packages_in_transit and packages_pending, and leaves balance, fleet, history,
\* packages_delivered, popularity_score and marketing_level as they were
C19_AdvanceDay ==
    (agent = "GameState") =>
        LET after == advance_day(game)
        IN /\ after.current_day = game.current_day + 1
           /\ after.current_routes = <<>>
           /\ after.packages_in_transit = <<>>
           /\ after.packages_pending = <<>>
           /\ after.balance = game.balance
           /\ after.fleet = game.fleet
           /\ after.history = game.history
           /\ after.packages_delivered = game.packages_delivered
           /\ after.popularity_score = game.popularity_score
           /\ after.marketing_level = game.marketing_level

\* the day has advanced over a day that was executed and left a package pending
C19_Witness ==
    /\ agent = "GameState"
    /\ result.status = "returned"
    /\ result.op = "advance_day"
    /\ game.current_day = 2
    /\ game.history # <<>>
    /\ Last(game.history).day = 1
    /\ Last(game.history).packages_delivered < Last(game.history).packages_attempted
    /\ game.packages_pending = <<>>
    /\ game.current_routes = <<>>

\* C21: in every state of a game popularity_score is a whole number within
\* [0, 1000] and popularity_history is not empty and ends with popularity_score
C21_PopularityInRangeAndLastOfHistory ==
    (agent = "GameState") =>
        /\ game.popularity_score \in 0..1000
        /\ game.popularity_history # <<>>
        /\ Last(game.popularity_history) = game.popularity_score

\* two days have been executed, one raising and one lowering the popularity
C21_Witness ==
    /\ agent = "GameState"
    /\ Len(game.history) = 2
    /\ Len(game.popularity_history) = 3
    /\ game.history[1].popularity_delta > 0
    /\ game.history[2].popularity_delta < 0
    /\ game.popularity_score = game.history[2].popularity_end

\* C22: execute_routes with no routes set returns 0.0 and leaves balance,
\* packages_pending, packages_delivered, popularity_score, recent_penalty_score
\* and history as they were
C22_NoRoutesNothingHappens ==
    (agent = "GameState" /\ game.current_routes = <<>>) =>
        LET out == execute_routes(game, "RAgent")
        IN /\ out.ret = 0
           /\ out.self.balance = game.balance
           /\ out.self.packages_pending = game.packages_pending
           /\ out.self.packages_delivered = game.packages_delivered
           /\ out.self.popularity_score = game.popularity_score
           /\ out.self.recent_penalty_score = game.recent_penalty_score
           /\ out.self.history = game.history

\* execute_routes has returned with packages pending and no routes set
C22_Witness ==
    /\ agent = "GameState"
    /\ result.status = "returned"
    /\ result.op = "execute_routes"
    /\ result.value = 0
    /\ game.current_routes = <<>>
    /\ game.packages_pending # <<>>
    /\ game.history = <<>>

\* the last three days on record all closed with a loss
ThreeLosses(history) ==
    /\ Len(history) >= 3
    /\ \A h \in (Len(history) - 2)..Len(history) : history[h].profit < 0

\* C23: is_game_over reports a loss when balance < 0 or the last three records
\* all have profit < 0, victory when the game has reached day 30 with a balance
\* above 200000, a loss before a victory, and (False, '') in every other state
C23_GameOver ==
    (agent = "GameState") =>
        LET over == is_game_over(game)
            lost == game.balance < 0 \/ ThreeLosses(game.history)
            won == game.current_day >= 30 /\ game.balance > 200000
        IN /\ lost => over[1] /\ over[2] \in {"Bankruptcy - Balance below $0",
                                             "Three consecutive days of losses"}
           /\ (game.balance < 0) => over[2] = "Bankruptcy - Balance below $0"
           /\ (~lost /\ won) => over[1] /\ over[2] = "Victory! Reached day 30"
           /\ (~lost /\ ~won) => over = <<FALSE, "">>

\* how many places on the routes hold the package of the id
PlacesOnRoutes(routes, pkg_id) ==
    SumSeq([r \in DOMAIN routes |->
              Cardinality({k \in DOMAIN routes[r].packages : routes[r].packages[k].id = pkg_id})])

\* C24: in every state of the manual mode get_manual_routes returns valid
\* routes: every assigned package is on exactly one route, that of the vehicle
\* the assignments record for it; a route's volume is within its vehicle's
\* capacity; every package's destination is exactly once among the stops
C24_ManualRoutesValid ==
    (agent = "Manual") =>
        LET routes == get_manual_routes(manual)
        IN /\ \A a \in DOMAIN manual.assignments :
                 /\ PlacesOnRoutes(routes, manual.assignments[a][1]) = 1
                 /\ \E r \in DOMAIN routes :
                       /\ routes[r].vehicle.id = manual.assignments[a][2]
                       /\ \E k \in DOMAIN routes[r].packages :
                             routes[r].packages[k].id = manual.assignments[a][1]
           /\ \A r \in DOMAIN routes :
                 /\ TotalVolume(routes[r].packages) <= routes[r].vehicle.capacity_m3
                 /\ \A k \in DOMAIN routes[r].packages :
                       /\ IsAssigned(manual, routes[r].packages[k].id)
                       /\ Count(routes[r].stops, routes[r].packages[k].destination) = 1

\* get_manual_routes has returned a route of two packages for one destination,
\* assigned after the vehicle page was turned
C24_Witness ==
    /\ agent = "Manual"
    /\ HasReturned
    /\ result.op = "get_manual_routes"
    /\ manual.vehicle_page = 1
    /\ Len(manual.assignments) = 2
    /\ \E r \in DOMAIN result.routes :
          /\ Len(result.routes[r].packages) = 2
          /\ Len(result.routes[r].stops) = 1
          /\ TotalVolume(result.routes[r].packages) = result.routes[r].vehicle.capacity_m3

\* the delivered packages, each id once: the first delivery of each
FirstDeliveries(delivered) ==
    SelectSeq([i \in DOMAIN delivered |-> [pkg |-> delivered[i], at |-> i]],
              LAMBDA d : \A j \in 1..(d.at - 1) : delivered[j].id # d.pkg.id)

\* C25: no package id is twice in packages_delivered, and no payment is
\* credited twice: the revenue on record is the payments of the delivered
\* packages, each counted once
C25_DeliveredAndPaidOnce ==
    (agent = "GameState") =>
        /\ \A i, j \in DOMAIN game.packages_delivered :
               game.packages_delivered[i].id = game.packages_delivered[j].id => i = j
        /\ SumSeq([h \in DOMAIN game.history |-> game.history[h].revenue])
               = SumSeq([d \in DOMAIN FirstDeliveries(game.packages_delivered) |->
                           FirstDeliveries(game.packages_delivered)[d].pkg.payment])

\* the agents whose plans the claim speaks of
ClusteringAgents == {"RAgent", "NeuralRAgent", "RAgentNoCheat", "RAgentOld"}

\* C26: in the routes of one plan_routes call a vehicle id is on at most one
\* route and no route lists a package twice, so there are at most
\* min(packages, vehicles) routes; for RAgent, NeuralRAgent and the
\* agent_r_nocheat and agent_r_old variants
C26_OneRoutePerVehicle ==
    (agent \in ClusteringAgents /\ HasReturned) =>
        /\ \A r, s \in DOMAIN result.routes :
               result.routes[r].vehicle.id = result.routes[s].vehicle.id => r = s
        /\ \A r \in DOMAIN result.routes :
               \A i, j \in DOMAIN result.routes[r].packages :
                   result.routes[r].packages[i].id = result.routes[r].packages[j].id => i = j
        /\ Len(result.routes) <= Len(packages)
        /\ Len(result.routes) <= Len(fleet)

C28_ActionsIndexRemaining ==
    (agent = "NeuralRAgent" /\ env.phase # "none") =>
        /\ env.phase # "IndexError"
        /\ env.action # 0 => env.action \in 1..env.valid_actions
        /\ env.action # 0 => env.valid_actions = Len(env.remaining) + 1
        /\ env.remaining = <<>> => IsPermutation(env.ordered_packages, env._packages)
        /\ \A i, j \in DOMAIN env.ordered_packages :
               env.ordered_packages[i].id = env.ordered_packages[j].id => i = j
        /\ env.phase = "rollout" =>
               env.stops = [i \in DOMAIN env.ordered_packages |->
                              env.ordered_packages[i].destination]

\* the rollout of a selection of three packages is complete, its last action
\* taken with one package remaining
C28_Witness ==
    /\ agent = "NeuralRAgent"
    /\ env.phase = "rollout"
    /\ env.remaining = <<>>
    /\ Len(env._packages) = 3
    /\ Len(env.ordered_packages) = 3
    /\ env.ordered_packages # env._packages
    /\ env.action = 1
    /\ env.valid_actions = 1

\* the fields of a vehicle that the claim names
SameVehicle(v, w) ==
    /\ v.id = w.id
    /\ v.name = w.name
    /\ v.capacity_m3 = w.capacity_m3
    /\ v.cost_per_km = w.cost_per_km
    /\ v.purchase_price = w.purchase_price
    /\ v.max_range_km = w.max_range_km
    /\ v.purchase_day = w.purchase_day
    /\ v.current_location = w.current_location

\* C29: a game saved with save_game_state and loaded back with
\* load_game_state under the same vehicle-type table has the same
\* current_day, balance, marketing_level, popularity_score, the same fleet
\* (ids, vehicle types, purchase days, locations) and the same DayHistory
\* records in every field, routes_count and total_distance included
C29_SaveLoadRestores ==
    (agent = "GameState" /\ result.status = "returned" /\ result.op = "load_game_state") =>
        LET loaded == result.value
        IN /\ "raised" \notin DOMAIN loaded
           /\ loaded.current_day = game.current_day
           /\ loaded.balance = game.balance
           /\ loaded.marketing_level = game.marketing_level
           /\ loaded.popularity_score = game.popularity_score
           /\ Len(loaded.fleet) = Len(game.fleet)
           /\ \A i \in DOMAIN game.fleet : SameVehicle(loaded.fleet[i], game.fleet[i])
           /\ loaded.history = game.history

\* C30: while autoplay is enabled process_autoplay schedules no action, runs
\* no action and counts no pending action's timer down in a frame that
\* begins with a modal visible, whichever of the five modals it is
C30_NoAutoplayUnderModal ==
    (agent = "DeliveryFleetApp" /\ app.frame.did \in {"scheduled", "counted", "ran"}) =>
        app.frame.visible = {}

====
